---------------------------- MODULE Spec2Model ----------------------------
(***************************************************************************)
(* CumRoad SOAP API: the business-rule layer of src/src/soap_service.py    *)
(* (class CumRoadService) over its sqlite store.                           *)
(*                                                                         *)
(* The store is the three tables of DatabaseManager.init_db plus the       *)
(* AUTOINCREMENT counters sqlite keeps for them.  Every handler is an      *)
(* operator from (world, request) to (world', fault, result); a call       *)
(* applies it and leaves request, response and the world before the call   *)
(* in view until the response is returned.                                 *)
(*                                                                         *)
(* Conventions.                                                            *)
(*  - An optional input is a sequence: <<>> is Python's None, <<v>> is v.   *)
(*  - A handler's `self` is taken to be a constructed CumRoadService       *)
(*    (self.db, self.auth and the bound helper methods available).         *)
(*  - Prices are whole amounts; float rounding is not modelled.            *)
(*  - A token is the record of its claims and of the key that signed it.   *)
(***************************************************************************)
EXTENDS Integers, Sequences, FiniteSets, TLC

VARIABLES
    users,      \* table users:    id -> row
    products,   \* table products: id -> row
    orders,     \* table orders:   id -> row
    seq,        \* sqlite_sequence: table name -> largest id ever given out
    now,        \* the clock: seconds of UTC
    tz,         \* the host's time zone: seconds its local time is ahead of UTC
    issued,     \* tokens Login has handed out (held by clients)
    cred,       \* history: live user id -> the password it was last given
    pc,         \* "idle" | "responded" (a response waits to be returned)
    req,        \* the request of the call made last
    fault,      \* its fault title, "" on success
    result,     \* its success value
    pre,        \* the world the call started from
    steps,      \* calls and clock ticks made so far
    flight,     \* calls between their statements (interleaved specifications)
    lock        \* TRUE while an abandoned connection holds the write lock

vars == <<users, products, orders, seq, now, tz, issued, cred,
          pc, req, fault, result, pre, steps, flight, lock>>

----------------------------------------------------------------------------
(* Bounds of the exploration *)

\* calls and clock ticks explored after the initial store
MaxSteps == 1

\* calls that may be in flight at once (interleaved specifications)
MaxFlight == 2

\* calls and clock ticks explored in the token-lifetime specification
MaxClockSteps == 4

\* calls started in a run of the statement-by-statement specifications
MaxRaceSteps == 3

\* calls explored from an empty store
MaxFreshSteps == 5

----------------------------------------------------------------------------
(* Program constants *)

\* soap_service.py:190  'exp': utcnow().timestamp() + 86400
TokenTTL == 86400

\* soap_service.py:293  len(user_input.password) < 8
MinPasswordLen == 8

\* soap_service.py:24
JWT_SECRET == "your-secret-key-change-this-in-production"

\* one clock tick of the model: half a token lifetime
TickStep == TokenTTL \div 2

----------------------------------------------------------------------------
(* Optional values and Python truthiness *)

None == <<>>

Some(v) == <<v>>

\* `not s` for an optional string: None or ''
FalsyStr(x) == x = None \/ x[1] = ""

\* `not n` for an optional number: None or 0
FalsyNum(x) == x = None \/ x[1] = 0

\* `x or default` for an optional string
OrStr(x, default) == IF FalsyStr(x) THEN default ELSE x[1]

----------------------------------------------------------------------------
(* Credential service: AuthManager *)

\* sha256(password).hexdigest(): deterministic, injective on the inputs used
hash_password(password) == <<"sha256", password>>

\* verify_password digesting with another algorithm than hash_password
verify_password_other_digest(password, hash) == <<"md5", password>> = hash

verify_password(password, hash) == hash_password(password) = hash

\* datetime.utcnow().timestamp(): utcnow() is a naive datetime holding UTC
\* wall-clock time, and timestamp() reads a naive datetime as local time, so
\* the value is the epoch time less the host's offset from UTC
utcnow_timestamp(w) == w.now - w.tz

\* the payload jwt.encode signs; t is utcnow_timestamp at the call
generate_token(user_id, email, t) ==
    [kind |-> "jwt", user_id |-> user_id, email |-> email,
     exp |-> t + TokenTTL, key |-> JWT_SECRET]

\* jwt.decode: None (<<>>) on a malformed token, a signature made with
\* another key, or an expired token; the payload otherwise
verify_token(token, t) ==
    IF token.kind = "jwt" /\ token.key = JWT_SECRET /\ token.exp > t
    THEN Some([user_id |-> token.user_id, email |-> token.email,
               exp |-> token.exp])
    ELSE None

\* request tokens that are not JWTs signed by anyone
NoToken == [kind |-> "none", user_id |-> 0, email |-> "", exp |-> 0, key |-> ""]

EmptyToken == [kind |-> "empty", user_id |-> 0, email |-> "", exp |-> 0, key |-> ""]

MalformedToken ==
    [kind |-> "malformed", user_id |-> 0, email |-> "", exp |-> 0, key |-> ""]

\* a well-formed token over claims c signed with a key that is not JWT_SECRET
ForgedToken(user_id, email, t) ==
    [generate_token(user_id, email, t) EXCEPT !.key = "some-other-key"]

\* `not token`
TokenMissing(token) == token.kind \in {"none", "empty"}

----------------------------------------------------------------------------
(* Requests, responses and the world a handler runs in *)

\* the fault titles _raise_soap_fault is called with, and the one an uncaught
\* exception (a storage error, a subscript of None) surfaces as
AuthenticationRequired == "Authentication Required"

InvalidToken == "Invalid Token"

Unauthorized == "Unauthorized"

ValidationError == "Validation Error"

InvalidPassword == "Invalid Password"

EmailAlreadyRegistered == "Email Already Registered"

InvalidCredentials == "Invalid Credentials"

ResourceNotFound == "Resource Not Found"

InternalError == "Internal Error"

UnknownOperation == "Unknown Operation"

\* every request has the same shape; an operation reads only its own fields
NoRequest ==
    [op |-> "none", token |-> NoToken, id |-> 0,
     email |-> None, password |-> None, name |-> None,
     description |-> None, price |-> None, image_url |-> None,
     product_id |-> None, quantity |-> None, status |-> None,
     \* the fields of a SOAP body posted to the five-operation service
     body |-> "ok", operation |-> "", shape |-> "dict", name_given |-> FALSE]

World == [users |-> users, products |-> products, orders |-> orders,
          seq |-> seq, now |-> now, tz |-> tz, issued |-> issued,
          lock |-> lock]

\* what a handler hands back: the world after it, a fault title or "", a value
Resp(w, f, r) == [w |-> w, fault |-> f, result |-> r]

\* an INSERT that failed on a constraint: the exception leaves the handler
\* before conn.commit() and conn.close(), and the connection, abandoned inside
\* its implicit transaction, keeps the database's write lock
Abandoned(w) == [w EXCEPT !.lock = TRUE]

Fail(w, f) == Resp(w, f, None)

\* cursor.lastrowid of an INSERT into an AUTOINCREMENT table
NextId_max_rowid(w, table) ==
    IF DOMAIN w[table] = {} THEN 1
    ELSE (CHOOSE m \in DOMAIN w[table] :
              \A k \in DOMAIN w[table] : k <= m) + 1

NextId(w, table) == w.seq[table] + 1

\* a function with one more (or one replaced) entry
Put(f, k, v) == [x \in DOMAIN f \cup {k} |-> IF x = k THEN v ELSE f[x]]

\* a function with one entry removed
Drop(f, k) == [x \in DOMAIN f \ {k} |-> f[x]]

----------------------------------------------------------------------------
(* CumRoadService helpers *)

\* _authenticate_user answering an expired token with a fault of its own
_authenticate_user_tells_expired(w, token) ==
    IF TokenMissing(token)
    THEN [fault |-> AuthenticationRequired, payload |-> None]
    ELSE IF token.kind = "jwt" /\ token.key = JWT_SECRET /\ token.exp <= w.now
         THEN [fault |-> "Token Expired", payload |-> None]
         ELSE IF verify_token(token, w.now) = None
              THEN [fault |-> InvalidToken, payload |-> None]
              ELSE [fault |-> "", payload |-> verify_token(token, w.now)]

\* _authenticate_user decoding the token without checking its expiry
_authenticate_user_no_expiry(w, token) ==
    IF TokenMissing(token)
    THEN [fault |-> AuthenticationRequired, payload |-> None]
    ELSE IF token.kind # "jwt" \/ token.key # JWT_SECRET
         THEN [fault |-> InvalidToken, payload |-> None]
         ELSE [fault |-> "",
               payload |-> Some([user_id |-> token.user_id,
                                 email |-> token.email, exp |-> token.exp])]

\* _authenticate_user: the fault it raises ("" for none) and the payload
_authenticate_user(w, token) ==
    IF TokenMissing(token)
    THEN [fault |-> AuthenticationRequired, payload |-> None]
    ELSE IF verify_token(token, w.now) = None
         THEN [fault |-> InvalidToken, payload |-> None]
         ELSE [fault |-> "", payload |-> verify_token(token, w.now)]

\* the user columns selected with the digest among them ("SELECT *")
UserView_all_columns(w, id) ==
    [id |-> id, email |-> w.users[id].email, name |-> w.users[id].name,
     role |-> w.users[id].role, created_at |-> w.users[id].created_at,
     updated_at |-> w.users[id].updated_at,
     password_hash |-> w.users[id].password_hash]

\* the columns _get_user_by_id and GetAllUsers select (no password_hash)
UserView(w, id) ==
    [id |-> id, email |-> w.users[id].email, name |-> w.users[id].name,
     role |-> w.users[id].role, created_at |-> w.users[id].created_at,
     updated_at |-> w.users[id].updated_at]

\* _get_user_by_id: None when no row has the id
_get_user_by_id(w, user_id) ==
    IF user_id \in DOMAIN w.users THEN Some(UserView(w, user_id)) ELSE None

ProductView(w, id) ==
    [id |-> id, name |-> w.products[id].name,
     description |-> w.products[id].description,
     price |-> w.products[id].price, image_url |-> w.products[id].image_url,
     user_id |-> w.products[id].user_id,
     created_at |-> w.products[id].created_at,
     updated_at |-> w.products[id].updated_at]

\* one row of "orders o JOIN products p ON o.product_id = p.id"
OrderView(w, id) ==
    [id |-> id, user_id |-> w.orders[id].user_id,
     product_id |-> w.orders[id].product_id,
     quantity |-> w.orders[id].quantity,
     total_price |-> w.orders[id].total_price,
     status |-> w.orders[id].status,
     created_at |-> w.orders[id].created_at,
     updated_at |-> w.orders[id].updated_at,
     product |-> ProductView(w, w.orders[id].product_id)]

\* the order ids the JOIN keeps: those whose product row exists
Joined(w) == {o \in DOMAIN w.orders : w.orders[o].product_id \in DOMAIN w.products}

\* email.split('@')[0] over the addresses the model uses
LocalPart(email) ==
    CASE email = "a@x.com" -> "a"
      [] email = "A@x.com" -> "A"
      [] email = "root@x.com" -> "root"
      [] OTHER -> email

\* the check UpdateUser and DeleteUser make after the row was found:
\* TRUE when the caller may go on
UserAuthorized(payload, user_id, user_data) ==
    ~(payload.user_id # user_id /\ user_data.role # "admin")

\* the ownership check with its comparison turned round
OwnsRow_inverted(row_user_id, payload) == row_user_id # payload.user_id

\* the check the product and order handlers make on SELECT user_id
OwnsRow(row_user_id, payload) == ~(row_user_id # payload.user_id)

----------------------------------------------------------------------------
(* User operations *)

GetAllUsers(w) ==
    Resp(w, "", {UserView(w, id) : id \in DOMAIN w.users})

\* the rows "SELECT ... FROM users WHERE email = ?" matches
UsersByEmail(w, email) == {id \in DOMAIN w.users : w.users[id].email = email}

\* an INSERT that makes the first user of the table an administrator
InsertUser_first_is_admin(w, email, password_hash, name) ==
    IF UsersByEmail(w, email) # {}
    THEN Fail(Abandoned(w), InternalError)
    ELSE LET id == NextId(w, "users")
             w2 == [w EXCEPT
                      !.users = Put(@, id,
                          [email |-> email, password_hash |-> password_hash,
                           name |-> name,
                           role |-> IF id = 1 THEN "admin" ELSE "user",
                           created_at |-> w.now, updated_at |-> w.now]),
                      !.seq = [@ EXCEPT !["users"] = id]]
         IN  Resp(w2, "", UserView(w2, id))

\* the INSERT into a users table declared without UNIQUE on email
InsertUser_no_unique(w, email, password_hash, name) ==
    LET id == NextId(w, "users")
        w2 == [w EXCEPT
                 !.users = Put(@, id,
                     [email |-> email, password_hash |-> password_hash,
                      name |-> name, role |-> "user",
                      created_at |-> w.now, updated_at |-> w.now]),
                 !.seq = [@ EXCEPT !["users"] = id]]
    IN  Resp(w2, "", UserView(w2, id))

\* "INSERT INTO users (email, password_hash, name, role)": the UNIQUE
\* constraint on email makes it fail (sqlite3.IntegrityError, uncaught), and
\* the handler's connection is left open inside its transaction
InsertUser(w, email, password_hash, name) ==
    IF UsersByEmail(w, email) # {}
    THEN Fail(Abandoned(w), InternalError)
    ELSE LET id == NextId(w, "users")
             w2 == [w EXCEPT
                      !.users = Put(@, id,
                          [email |-> email, password_hash |-> password_hash,
                           name |-> name, role |-> "user",
                           created_at |-> w.now, updated_at |-> w.now]),
                      !.seq = [@ EXCEPT !["users"] = id]]
         IN  Resp(w2, "", UserView(w2, id))

\* CreateUser looking the email up before it checks the password's length
CreateUserCheck_select_first(w, email, password) ==
    IF FalsyStr(email) \/ FalsyStr(password)
    THEN ValidationError
    ELSE IF UsersByEmail(w, email[1]) # {}
         THEN EmailAlreadyRegistered
         ELSE IF Len(password[1]) < MinPasswordLen
              THEN InvalidPassword
              ELSE ""

\* CreateUser without its existence SELECT
CreateUserCheck_no_select(w, email, password) ==
    IF FalsyStr(email) \/ FalsyStr(password)
    THEN ValidationError
    ELSE IF Len(password[1]) < MinPasswordLen
         THEN InvalidPassword
         ELSE ""

\* CreateUser up to and including its existence SELECT: the fault it raises
CreateUserCheck(w, email, password) ==
    IF FalsyStr(email) \/ FalsyStr(password)
    THEN ValidationError
    ELSE IF Len(password[1]) < MinPasswordLen
         THEN InvalidPassword
         ELSE IF UsersByEmail(w, email[1]) # {}
              THEN EmailAlreadyRegistered
              ELSE ""

CreateUser(w, email, password, name) ==
    IF CreateUserCheck(w, email, password) # ""
    THEN Fail(w, CreateUserCheck(w, email, password))
    ELSE InsertUser(w, email[1], hash_password(password[1]),
                    OrStr(name, LocalPart(email[1])))

GetUserById(w, user_id) ==
    IF _get_user_by_id(w, user_id) = None
    THEN Fail(w, ResourceNotFound)
    ELSE Resp(w, "", _get_user_by_id(w, user_id)[1])

\* the row UpdateUser's UPDATE leaves
UpdatedUser(w, user_id, name, password) ==
    LET r1 == IF FalsyStr(name) THEN w.users[user_id]
              ELSE [w.users[user_id] EXCEPT !.name = name[1]]
        r2 == IF FalsyStr(password) THEN r1
              ELSE [r1 EXCEPT !.password_hash = hash_password(password[1])]
    IN  IF FalsyStr(name) /\ FalsyStr(password) THEN r2
        ELSE [r2 EXCEPT !.updated_at = w.now]

UpdateUser(w, user_id, name, password, token) ==
    LET auth == _authenticate_user(w, token) IN
    IF auth.fault # "" THEN Fail(w, auth.fault)
    ELSE IF _get_user_by_id(w, user_id) = None THEN Fail(w, ResourceNotFound)
    ELSE IF ~UserAuthorized(auth.payload[1], user_id, _get_user_by_id(w, user_id)[1])
         THEN Fail(w, Unauthorized)
    ELSE IF ~FalsyStr(password) /\ Len(password[1]) < MinPasswordLen
         THEN Fail(w, InvalidPassword)
    ELSE LET w2 == [w EXCEPT !.users[user_id] =
                        UpdatedUser(w, user_id, name, password)]
         IN  Resp(w2, "", UserView(w2, user_id))

DeleteUser(w, user_id, token) ==
    LET auth == _authenticate_user(w, token) IN
    IF auth.fault # "" THEN Fail(w, auth.fault)
    ELSE IF _get_user_by_id(w, user_id) = None THEN Fail(w, ResourceNotFound)
    ELSE IF ~UserAuthorized(auth.payload[1], user_id, _get_user_by_id(w, user_id)[1])
         THEN Fail(w, Unauthorized)
    ELSE Resp([w EXCEPT !.users = Drop(@, user_id)], "", None)

----------------------------------------------------------------------------
(* Session operations *)

\* cursor.fetchone() of the SELECT by email: the first matching row
LoginRow(w, email) ==
    CHOOSE id \in UsersByEmail(w, email) :
        \A other \in UsersByEmail(w, email) : id <= other

Login(w, email, password) ==
    IF FalsyStr(email) \/ FalsyStr(password) THEN Fail(w, ValidationError)
    ELSE IF UsersByEmail(w, email[1]) = {}
            \/ ~verify_password(password[1],
                                w.users[LoginRow(w, email[1])].password_hash)
         THEN Fail(w, InvalidCredentials)
    ELSE LET id == LoginRow(w, email[1])
             token == generate_token(id, w.users[id].email, utcnow_timestamp(w))
         IN  Resp([w EXCEPT !.issued = @ \cup {token}], "",
                  [user |-> UserView(w, id), token |-> token])

\* Logout that does not look at the token
Logout_unchecked(w, token) == Resp(w, "", None)

Logout(w, token) ==
    LET auth == _authenticate_user(w, token) IN
    IF auth.fault # "" THEN Fail(w, auth.fault) ELSE Resp(w, "", None)

----------------------------------------------------------------------------
(* Product operations *)

GetAllProducts(w) ==
    Resp(w, "", {ProductView(w, id) : id \in DOMAIN w.products})

\* CreateProduct's input check: TRUE when the handler raises Validation Error
CreateProductInvalid(name, price) == FalsyStr(name) \/ FalsyNum(price)

\* CreateProduct binding the new row's id where the owner belongs
CreateProduct_owner_from_rowid(w, name, description, price, image_url, token) ==
    LET auth == _authenticate_user(w, token) IN
    IF auth.fault # "" THEN Fail(w, auth.fault)
    ELSE IF CreateProductInvalid(name, price) THEN Fail(w, ValidationError)
    ELSE LET id == NextId(w, "products")
             w2 == [w EXCEPT
                      !.products = Put(@, id,
                          [name |-> name[1],
                           description |-> OrStr(description, ""),
                           price |-> price[1],
                           image_url |-> OrStr(image_url, ""),
                           user_id |-> id,
                           created_at |-> w.now, updated_at |-> w.now]),
                      !.seq = [@ EXCEPT !["products"] = id]]
         IN  Resp(w2, "", ProductView(w2, id))

CreateProduct(w, name, description, price, image_url, token) ==
    LET auth == _authenticate_user(w, token) IN
    IF auth.fault # "" THEN Fail(w, auth.fault)
    ELSE IF CreateProductInvalid(name, price) THEN Fail(w, ValidationError)
    ELSE LET id == NextId(w, "products")
             w2 == [w EXCEPT
                      !.products = Put(@, id,
                          [name |-> name[1],
                           description |-> OrStr(description, ""),
                           price |-> price[1],
                           image_url |-> OrStr(image_url, ""),
                           user_id |-> auth.payload[1].user_id,
                           created_at |-> w.now, updated_at |-> w.now]),
                      !.seq = [@ EXCEPT !["products"] = id]]
         IN  Resp(w2, "", ProductView(w2, id))

GetProductById(w, product_id) ==
    IF product_id \notin DOMAIN w.products THEN Fail(w, ResourceNotFound)
    ELSE Resp(w, "", ProductView(w, product_id))

\* the row UpdateProduct's UPDATE leaves
UpdatedProduct(w, product_id, name, description, price, image_url) ==
    LET r0 == w.products[product_id]
        r1 == IF FalsyStr(name) THEN r0 ELSE [r0 EXCEPT !.name = name[1]]
        r2 == IF description = None THEN r1
              ELSE [r1 EXCEPT !.description = description[1]]
        r3 == IF FalsyNum(price) THEN r2 ELSE [r2 EXCEPT !.price = price[1]]
        r4 == IF image_url = None THEN r3
              ELSE [r3 EXCEPT !.image_url = image_url[1]]
    IN  IF FalsyStr(name) /\ description = None
           /\ FalsyNum(price) /\ image_url = None
        THEN r0
        ELSE [r4 EXCEPT !.updated_at = w.now]

UpdateProduct(w, product_id, name, description, price, image_url, token) ==
    LET auth == _authenticate_user(w, token) IN
    IF auth.fault # "" THEN Fail(w, auth.fault)
    ELSE IF product_id \notin DOMAIN w.products THEN Fail(w, ResourceNotFound)
    ELSE IF ~OwnsRow(w.products[product_id].user_id, auth.payload[1])
         THEN Fail(w, Unauthorized)
    ELSE LET w2 == [w EXCEPT !.products[product_id] =
                        UpdatedProduct(w, product_id, name, description,
                                       price, image_url)]
         IN  Resp(w2, "", ProductView(w2, product_id))

DeleteProduct(w, product_id, token) ==
    LET auth == _authenticate_user(w, token) IN
    IF auth.fault # "" THEN Fail(w, auth.fault)
    ELSE IF product_id \notin DOMAIN w.products THEN Fail(w, ResourceNotFound)
    ELSE IF ~OwnsRow(w.products[product_id].user_id, auth.payload[1])
         THEN Fail(w, Unauthorized)
    ELSE Resp([w EXCEPT !.products = Drop(@, product_id)], "", None)

----------------------------------------------------------------------------
(* Order operations *)

GetAllOrders(w, token) ==
    LET auth == _authenticate_user(w, token) IN
    IF auth.fault # "" THEN Fail(w, auth.fault)
    ELSE Resp(w, "",
              {OrderView(w, o) :
                 o \in {j \in Joined(w) :
                          w.orders[j].user_id = auth.payload[1].user_id}})

\* CreateOrder's input check without `quantity < 1`
CreateOrderInvalid_no_lower_bound(product_id, quantity) ==
    FalsyNum(product_id) \/ FalsyNum(quantity)

\* CreateOrder's input check: TRUE when the handler raises Validation Error
CreateOrderInvalid(product_id, quantity) ==
    FalsyNum(product_id) \/ FalsyNum(quantity) \/ quantity[1] < 1

\* total_price = product_row[1] * order_input.quantity
TotalPrice(price, quantity) == price * quantity

CreateOrder(w, product_id, quantity, token) ==
    LET auth == _authenticate_user(w, token) IN
    IF auth.fault # "" THEN Fail(w, auth.fault)
    ELSE IF CreateOrderInvalid(product_id, quantity) THEN Fail(w, ValidationError)
    ELSE IF product_id[1] \notin DOMAIN w.products THEN Fail(w, ResourceNotFound)
    ELSE LET id == NextId(w, "orders")
             w2 == [w EXCEPT
                      !.orders = Put(@, id,
                          [user_id |-> auth.payload[1].user_id,
                           product_id |-> product_id[1],
                           quantity |-> quantity[1],
                           total_price |->
                               TotalPrice(w.products[product_id[1]].price,
                                          quantity[1]),
                           status |-> "pending",
                           created_at |-> w.now, updated_at |-> w.now]),
                      !.seq = [@ EXCEPT !["orders"] = id]]
         IN  Resp(w2, "", OrderView(w2, id))

\* GetOrderById's SELECT without "AND o.user_id = ?"
OrderVisible_any_owner(w, order_id, payload) == order_id \in Joined(w)

\* the row GetOrderById's SELECT finds: "WHERE o.id = ? AND o.user_id = ?"
OrderVisible(w, order_id, payload) ==
    order_id \in Joined(w) /\ w.orders[order_id].user_id = payload.user_id

GetOrderById(w, order_id, token) ==
    LET auth == _authenticate_user(w, token) IN
    IF auth.fault # "" THEN Fail(w, auth.fault)
    ELSE IF ~OrderVisible(w, order_id, auth.payload[1])
         THEN Fail(w, ResourceNotFound)
    ELSE Resp(w, "", OrderView(w, order_id))

\* `order_update.quantity and order_update.quantity >= 1`
QuantityGiven(quantity) == ~FalsyNum(quantity) /\ quantity[1] >= 1

\* `order_update.status and order_update.status in [...]`
StatusGiven(status) ==
    ~FalsyStr(status) /\ status[1] \in {"pending", "completed", "cancelled"}

\* the total UpdateOrder writes with a new quantity: recomputed from the
\* product's current price when the product row is still there
RecomputedTotal(w, order_id, quantity) ==
    LET pid == w.orders[order_id].product_id IN
    IF pid \in DOMAIN w.products
    THEN TotalPrice(w.products[pid].price, quantity)
    ELSE w.orders[order_id].total_price

\* the row UpdateOrder's UPDATE leaves
UpdatedOrder(w, order_id, quantity, status) ==
    LET r0 == w.orders[order_id]
        r1 == IF QuantityGiven(quantity)
              THEN [r0 EXCEPT !.quantity = quantity[1],
                              !.total_price =
                                  RecomputedTotal(w, order_id, quantity[1])]
              ELSE r0
        r2 == IF StatusGiven(status) THEN [r1 EXCEPT !.status = status[1]]
              ELSE r1
    IN  IF QuantityGiven(quantity) \/ StatusGiven(status)
        THEN [r2 EXCEPT !.updated_at = w.now]
        ELSE r0

UpdateOrder(w, order_id, quantity, status, token) ==
    LET auth == _authenticate_user(w, token) IN
    IF auth.fault # "" THEN Fail(w, auth.fault)
    ELSE IF order_id \notin DOMAIN w.orders THEN Fail(w, ResourceNotFound)
    ELSE IF ~OwnsRow(w.orders[order_id].user_id, auth.payload[1])
         THEN Fail(w, Unauthorized)
    ELSE LET w2 == [w EXCEPT !.orders[order_id] =
                        UpdatedOrder(w, order_id, quantity, status)]
         IN  \* the closing JOIN finds no row once the product is gone, and
             \* row[0] of None raises after the UPDATE was committed
             IF order_id \in Joined(w2)
             THEN Resp(w2, "", OrderView(w2, order_id))
             ELSE Fail(w2, InternalError)

DeleteOrder(w, order_id, token) ==
    LET auth == _authenticate_user(w, token) IN
    IF auth.fault # "" THEN Fail(w, auth.fault)
    ELSE IF order_id \notin DOMAIN w.orders THEN Fail(w, ResourceNotFound)
    ELSE IF ~OwnsRow(w.orders[order_id].user_id, auth.payload[1])
         THEN Fail(w, Unauthorized)
    ELSE Resp([w EXCEPT !.orders = Drop(@, order_id)], "", None)

----------------------------------------------------------------------------
(* CumRoadSOAPService: the five-operation service of                       *)
(* simple_soap_service.py.  It opens the same database file and signs with *)
(* the same key, so it acts on the same world.  A request r is the parsed  *)
(* SOAP body: r.body says whether the XML parsed and held an operation,    *)
(* r.operation is the element's local name, r.shape the shape of the       *)
(* operation's complex parameter ("dict" with child elements, "text" when  *)
(* it holds text only, "none" when it is empty, "absent"), and the text of *)
(* a child element is <<>> for an empty element.                           *)
(* An element without children is parsed to its text: a str, or None for  *)
(* an empty element.                                                       *)
(* r.name_given tells a <name> child from none.                            *)

\* SOAPHelper.create_soap_fault: the fault a response carries
create_soap_fault(w, fault_code, fault_string, detail) ==
    Resp(w, fault_string, [faultcode |-> fault_code, detail |-> detail])

\* an exception leaving a handler, with its message
Raised(w, message) == Resp(w, "*raised*", message)

\* what `.get` raises on a parameter that is no dict: a str for an element
\* that holds text, None for an empty element
ShapeError(shape) ==
    IF shape = "text" THEN "'str' object has no attribute 'get'"
    ELSE "'NoneType' object has no attribute 'get'"

\* float(text) over the texts the model uses: <<>> stands for ValueError
float_of(text) ==
    CASE text = "10" -> Some(10)
      [] text = "0" -> Some(0)
      [] text = "-5" -> Some(-5)
      [] OTHER -> None

create_user(w, r) ==
    IF r.shape \in {"text", "none"} THEN Raised(w, ShapeError(r.shape))
    ELSE LET email == IF r.shape = "dict" THEN r.email ELSE None
             password == IF r.shape = "dict" THEN r.password ELSE None
             name == IF r.shape = "dict" /\ r.name_given THEN r.name
                     ELSE IF ~FalsyStr(email) THEN Some(LocalPart(email[1]))
                          ELSE Some("User")
         IN
    IF FalsyStr(email) \/ FalsyStr(password)
    THEN create_soap_fault(w, "Client", ValidationError,
                           "Email and password are required")
    ELSE IF Len(password[1]) < 8
    THEN create_soap_fault(w, "Client", InvalidPassword,
                           "Password must be at least 8 characters long")
    ELSE IF UsersByEmail(w, email[1]) # {}
    THEN create_soap_fault(w, "Client", EmailAlreadyRegistered,
                           "The email address is already registered")
    ELSE IF name = None
    THEN Raised(Abandoned(w), "NOT NULL constraint failed: users.name")
    ELSE LET id == NextId(w, "users")
             w2 == [w EXCEPT
                      !.users = Put(@, id,
                          [email |-> email[1],
                           password_hash |-> hash_password(password[1]),
                           name |-> name[1], role |-> "user",
                           created_at |-> w.now, updated_at |-> w.now]),
                      !.seq = [@ EXCEPT !["users"] = id]]
         IN  Resp(w2, "", UserView(w2, id))

get_all_users(w, r) ==
    Resp(w, "", {UserView(w, id) : id \in DOMAIN w.users})

login(w, r) ==
    IF r.shape \in {"text", "none"} THEN Raised(w, ShapeError(r.shape))
    ELSE LET email == IF r.shape = "dict" THEN r.email ELSE None
             password == IF r.shape = "dict" THEN r.password ELSE None
         IN
    IF FalsyStr(email) \/ FalsyStr(password)
    THEN create_soap_fault(w, "Client", ValidationError,
                           "Email and password are required")
    ELSE IF UsersByEmail(w, email[1]) = {}
            \/ ~verify_password(password[1],
                                w.users[LoginRow(w, email[1])].password_hash)
    THEN create_soap_fault(w, "Client", InvalidCredentials,
                           "Invalid email or password")
    ELSE LET id == LoginRow(w, email[1])
             token == generate_token(id, w.users[id].email, utcnow_timestamp(w))
         IN  Resp([w EXCEPT !.issued = @ \cup {token}], "",
                  [user |-> UserView(w, id), token |-> token])

get_all_products(w, r) ==
    Resp(w, "", {ProductView(w, id) : id \in DOMAIN w.products})

create_product(w, r) ==
    IF TokenMissing(r.token)
    THEN create_soap_fault(w, "Client", AuthenticationRequired,
                           "Authentication token is required")
    ELSE IF verify_token(r.token, w.now) = None
    THEN create_soap_fault(w, "Client", InvalidToken,
                           "Authentication token is invalid or expired")
    ELSE IF r.shape \in {"text", "none"}
    THEN Raised(w, ShapeError(r.shape))
    ELSE LET name == IF r.shape = "dict" THEN r.name ELSE None
             price == IF r.shape = "dict" THEN r.price ELSE None
         IN
    IF FalsyStr(name) \/ FalsyStr(price)
    THEN create_soap_fault(w, "Client", ValidationError,
                           "Name and price are required")
    ELSE IF float_of(price[1]) = None
    THEN create_soap_fault(w, "Client", ValidationError,
                           "Invalid price format")
    ELSE LET id == NextId(w, "products")
             w2 == [w EXCEPT
                      !.products = Put(@, id,
                          [name |-> name[1], description |-> "",
                           price |-> float_of(price[1])[1],
                           image_url |-> "",
                           user_id |-> verify_token(r.token, w.now)[1].user_id,
                           created_at |-> w.now, updated_at |-> w.now]),
                      !.seq = [@ EXCEPT !["products"] = id]]
         IN  Resp(w2, "", ProductView(w2, id))

\* the bodies that are no XML: r.body is then the text that was posted
MalformedBodies == {"<<<", "hello", "", "<a></b>"}

\* str(e) of the ET.ParseError that ET.fromstring raises on such a body:
\* expat's message and the position it stopped at
ParseError(body) ==
    CASE body = "<<<" -> "not well-formed (invalid token): line 1, column 1"
      [] body = "hello" -> "syntax error: line 1, column 0"
      [] body = "" -> "no element found: line 1, column 0"
      [] body = "<a></b>" -> "mismatched tag: line 1, column 5"

\* SOAPHelper.parse_soap_request: the ValueError it raises, "" for none
\* (r.body is "ok" for an envelope with an operation element and "empty"
\* for one without)
parse_soap_request(r) ==
    CASE r.body \in MalformedBodies -> "Invalid XML: " \o ParseError(r.body)
      [] r.body = "empty" -> "No operation found in SOAP request"
      [] OTHER -> ""

\* routing that compares operation names without regard to case
Route_case_folded(w, r) ==
    CASE r.operation \in {"CreateUserRequest", "createuserrequest",
                          "CREATEUSERREQUEST"} -> create_user(w, r)
      [] r.operation = "GetAllUsersRequest" -> get_all_users(w, r)
      [] r.operation = "LoginRequest" -> login(w, r)
      [] r.operation = "GetAllProductsRequest" -> get_all_products(w, r)
      [] r.operation = "CreateProductRequest" -> create_product(w, r)
      [] OTHER -> create_soap_fault(w, "Client", UnknownOperation,
                "Operation " \o r.operation \o " is not supported")

\* the handler process_request's if/elif chain picks for an operation name
Route(w, r) ==
    CASE r.operation = "CreateUserRequest" -> create_user(w, r)
      [] r.operation = "GetAllUsersRequest" -> get_all_users(w, r)
      [] r.operation = "LoginRequest" -> login(w, r)
      [] r.operation = "GetAllProductsRequest" -> get_all_products(w, r)
      [] r.operation = "CreateProductRequest" -> create_product(w, r)
      [] OTHER -> create_soap_fault(w, "Client", UnknownOperation,
                "Operation " \o r.operation \o " is not supported")

\* process_request catching the parser's ValueError only
process_request_except_value_error(w, r) ==
    IF parse_soap_request(r) # ""
    THEN create_soap_fault(w, "Server", InternalError, parse_soap_request(r))
    ELSE Route(w, r)

\* process_request: parse, route, and the except clause around both
process_request(w, r) ==
    LET out == IF parse_soap_request(r) # ""
               THEN Raised(w, parse_soap_request(r))
               ELSE Route(w, r)
    IN  IF out.fault = "*raised*"
        THEN create_soap_fault(out.w, "Server", InternalError, out.result)
        ELSE out

----------------------------------------------------------------------------
(* Dispatch: one request against one world *)

AuthRequiredOps ==
    {"UpdateUser", "DeleteUser", "Logout", "CreateProduct", "UpdateProduct",
     "DeleteProduct", "GetAllOrders", "CreateOrder", "GetOrderById",
     "UpdateOrder", "DeleteOrder"}

\* the handler a request runs, on a database no other connection has locked
Dispatch(w, r) ==
    CASE r.op = "GetAllUsers" -> GetAllUsers(w)
      [] r.op = "CreateUser" -> CreateUser(w, r.email, r.password, r.name)
      [] r.op = "GetUserById" -> GetUserById(w, r.id)
      [] r.op = "UpdateUser" -> UpdateUser(w, r.id, r.name, r.password, r.token)
      [] r.op = "DeleteUser" -> DeleteUser(w, r.id, r.token)
      [] r.op = "Login" -> Login(w, r.email, r.password)
      [] r.op = "Logout" -> Logout(w, r.token)
      [] r.op = "GetAllProducts" -> GetAllProducts(w)
      [] r.op = "CreateProduct" ->
            CreateProduct(w, r.name, r.description, r.price, r.image_url, r.token)
      [] r.op = "GetProductById" -> GetProductById(w, r.id)
      [] r.op = "UpdateProduct" ->
            UpdateProduct(w, r.id, r.name, r.description, r.price,
                          r.image_url, r.token)
      [] r.op = "DeleteProduct" -> DeleteProduct(w, r.id, r.token)
      [] r.op = "GetAllOrders" -> GetAllOrders(w, r.token)
      [] r.op = "CreateOrder" -> CreateOrder(w, r.product_id, r.quantity, r.token)
      [] r.op = "GetOrderById" -> GetOrderById(w, r.id, r.token)
      [] r.op = "UpdateOrder" ->
            UpdateOrder(w, r.id, r.quantity, r.status, r.token)
      [] r.op = "DeleteOrder" -> DeleteOrder(w, r.id, r.token)
      [] r.op = "process_request" -> process_request(w, r)
      [] r.op = "Tick" -> Resp([w EXCEPT !.now = @ + TickStep], "", None)

\* TRUE when the handler that answered resp got as far as an INSERT, UPDATE
\* or DELETE: every check before the statement passed, and an update had a
\* column to set
ReachesWrite(r, resp) ==
    CASE r.op \in {"CreateUser", "DeleteUser", "CreateProduct",
                   "DeleteProduct", "CreateOrder", "DeleteOrder"} ->
            resp.fault = ""
      [] r.op = "UpdateUser" ->
            resp.fault = "" /\ ~(FalsyStr(r.name) /\ FalsyStr(r.password))
      [] r.op = "UpdateProduct" ->
            /\ resp.fault = ""
            /\ ~(FalsyStr(r.name) /\ r.description = None
                   /\ FalsyNum(r.price) /\ r.image_url = None)
      [] r.op = "UpdateOrder" ->
            /\ resp.fault \in {"", InternalError}
            /\ (QuantityGiven(r.quantity) \/ StatusGiven(r.status))
      [] r.op = "process_request" ->
            /\ r.operation \in {"CreateUserRequest", "CreateProductRequest"}
            /\ \/ resp.fault = ""
               \/ /\ resp.fault = InternalError
                  /\ resp.result.detail =
                         "NOT NULL constraint failed: users.name"
      [] OTHER -> FALSE

\* a request against the database file.  sqlite3.connect(db_file) waits five
\* seconds for a lock: while an abandoned connection holds the write lock a
\* SELECT still reads, and an INSERT, UPDATE or DELETE raises
\* sqlite3.OperationalError "database is locked", which nothing catches in
\* the full service and process_request answers as a Server fault
Handle(w, r) ==
    CHOOSE answer \in
        {IF w.lock /\ ReachesWrite(r, resp)
         THEN IF r.op = "process_request"
              THEN create_soap_fault(w, "Server", InternalError,
                                     "database is locked")
              ELSE Fail(w, InternalError)
         ELSE resp : resp \in {Dispatch(w, r)}} : TRUE

\* history: the password each live user was last given through the API
CredAfter(c, r, resp) ==
    IF resp.fault # "" THEN c
    ELSE CASE r.op = "CreateUser" -> Put(c, resp.result.id, r.password[1])
           [] r.op = "process_request" /\ r.operation = "CreateUserRequest" ->
                 Put(c, resp.result.id, r.password[1])
           [] r.op = "UpdateUser" /\ ~FalsyStr(r.password) ->
                 Put(c, r.id, r.password[1])
           [] r.op = "DeleteUser" -> Drop(c, r.id)
           [] OTHER -> c

\* a run of requests from world w with history c: the world and history after
RECURSIVE Replay(_, _, _)
Replay(w, c, rs) ==
    IF rs = <<>> THEN [w |-> w, cred |-> c]
    ELSE CHOOSE after \in
             {Replay(resp.w, CredAfter(c, Head(rs), resp), Tail(rs)) :
                 resp \in {Handle(w, Head(rs))}} : TRUE

----------------------------------------------------------------------------
(* Initial stores *)

EmptyRow == [x \in {} |-> 0]

\* a new database file: init_db has created three empty tables
EmptyDB ==
    [users |-> EmptyRow, products |-> EmptyRow, orders |-> EmptyRow,
     seq |-> [t \in {"users", "products", "orders"} |-> 0],
     now |-> 0, tz |-> 0, issued |-> {}, lock |-> FALSE]

\* an existing database file (CREATE TABLE IF NOT EXISTS keeps its rows) that
\* holds one administrator, a role no operation of the service can give
AdminDB ==
    [EmptyDB EXCEPT
       !.users = Put(EmptyRow, 1,
           [email |-> "root@x.com",
            password_hash |-> hash_password("longenough1"),
            name |-> "root", role |-> "admin",
            created_at |-> 0, updated_at |-> 0]),
       !.seq = [@ EXCEPT !["users"] = 1]]

AdminCred == Put(EmptyRow, 1, "longenough1")

Call(op) == [NoRequest EXCEPT !.op = op]

\* user 2 signs up and logs in; a token lifetime later user 3 signs up, all
\* three log in, user 2 offers a product, user 3 orders it, user 2 raises the
\* price.  The world it leaves holds one expired and three fresh tokens.
ShopPrefix ==
    LET t2 == generate_token(2, "a@x.com", 2 * TickStep)
        t3 == generate_token(3, "A@x.com", 2 * TickStep)
    IN << [Call("CreateUser") EXCEPT !.email = Some("a@x.com"),
                                     !.password = Some("longenough1")],
          [Call("Login") EXCEPT !.email = Some("a@x.com"),
                                !.password = Some("longenough1")],
          Call("Tick"), Call("Tick"),
          [Call("CreateUser") EXCEPT !.email = Some("A@x.com"),
                                     !.password = Some("exactly8"),
                                     !.name = Some("Ann")],
          [Call("Login") EXCEPT !.email = Some("root@x.com"),
                                !.password = Some("longenough1")],
          [Call("Login") EXCEPT !.email = Some("a@x.com"),
                                !.password = Some("longenough1")],
          [Call("Login") EXCEPT !.email = Some("A@x.com"),
                                !.password = Some("exactly8")],
          [Call("CreateProduct") EXCEPT !.name = Some("Widget"),
                                        !.price = Some(10), !.token = t2],
          [Call("CreateOrder") EXCEPT !.product_id = Some(1),
                                      !.quantity = Some(2), !.token = t3],
          Call("Tick"),
          [Call("UpdateProduct") EXCEPT !.id = 1, !.price = Some(15),
                                        !.token = t2] >>

\* the stores a run starts from: what a database file holds after a history
\* of calls.  After ShopPrefix the seller withdraws the product, or the buyer
\* closes the account, or a registration with an empty <name> element is
\* posted to the five-operation service: its INSERT fails, and the
\* connection it abandons holds the write lock
Seeds ==
    { Replay(EmptyDB, EmptyRow, <<>>),
      Replay(AdminDB, AdminCred, <<>>),
      Replay(AdminDB, AdminCred, ShopPrefix),
      Replay(AdminDB, AdminCred, ShopPrefix \o
          << [Call("DeleteProduct") EXCEPT
                !.id = 1,
                !.token = generate_token(2, "a@x.com", 2 * TickStep)] >>),
      Replay(AdminDB, AdminCred, ShopPrefix \o
          << [Call("DeleteUser") EXCEPT
                !.id = 3,
                !.token = generate_token(3, "A@x.com", 2 * TickStep)] >>),
      Replay(AdminDB, AdminCred, ShopPrefix \o
          << [Call("process_request") EXCEPT
                !.operation = "CreateUserRequest",
                !.email = Some("b@x.com"),
                !.password = Some("longenough1"), !.name_given = TRUE] >>) }

----------------------------------------------------------------------------
(* The inputs explored *)

EmailInputs == {None, Some(""), Some("a@x.com"), Some("A@x.com")}

\* "seven77" has 7 characters, "exactly8" has 8
PasswordInputs == {None, Some("seven77"), Some("exactly8"), Some("longenough1")}

NameInputs == {None, Some("Ann")}

PriceInputs == {None, Some(0), Some(-5), Some(10)}

QuantityInputs == {None, Some(-1), Some(0), Some(1), Some(3)}

\* the ids a table has given out, and the next one (no row has it yet)
IdInputs(table) == 1..(seq[table] + 1)

\* the shapes of an operation's complex parameter
ShapeInputs == {"dict", "text", "none", "absent"}

\* no token, an empty one, one that is no JWT, one signed with another key,
\* and every token a client holds (expired ones included)
TokenInputs ==
    {NoToken, EmptyToken, MalformedToken, ForgedToken(1, "root@x.com", now)}
        \cup issued

----------------------------------------------------------------------------
(* Actions *)

\* a call: the handler runs to completion against the current world
InvokeWithin(r, bound) ==
    /\ pc = "idle"
    /\ steps < bound
    /\ \E resp \in {Handle(World, r)} :
         /\ users' = resp.w.users
         /\ products' = resp.w.products
         /\ orders' = resp.w.orders
         /\ seq' = resp.w.seq
         /\ now' = resp.w.now
         /\ issued' = resp.w.issued
         /\ lock' = resp.w.lock
         /\ cred' = CredAfter(cred, r, resp)
         /\ fault' = resp.fault
         /\ result' = resp.result
    /\ pc' = "responded"
    /\ req' = r
    /\ pre' = World
    /\ steps' = steps + 1
    /\ UNCHANGED <<tz, flight>>

Invoke(r) == InvokeWithin(r, MaxSteps)

DoGetAllUsers == Invoke(Call("GetAllUsers"))

DoCreateUser ==
    \E e \in EmailInputs, p \in PasswordInputs, n \in NameInputs :
        Invoke([Call("CreateUser") EXCEPT !.email = e, !.password = p, !.name = n])

DoGetUserById ==
    \E id \in IdInputs("users") : Invoke([Call("GetUserById") EXCEPT !.id = id])

DoUpdateUser ==
    \E id \in IdInputs("users"), n \in NameInputs, p \in PasswordInputs,
       t \in TokenInputs \ {EmptyToken} :
        Invoke([Call("UpdateUser") EXCEPT !.id = id, !.name = n,
                                          !.password = p, !.token = t])

DoDeleteUser ==
    \E id \in IdInputs("users"), t \in TokenInputs :
        Invoke([Call("DeleteUser") EXCEPT !.id = id, !.token = t])

DoLogin ==
    \E e \in {None, Some("a@x.com"), Some("A@x.com"), Some("root@x.com")},
       p \in PasswordInputs :
        Invoke([Call("Login") EXCEPT !.email = e, !.password = p])

DoLogout ==
    \E t \in TokenInputs : Invoke([Call("Logout") EXCEPT !.token = t])

DoGetAllProducts == Invoke(Call("GetAllProducts"))

DoCreateProduct ==
    \E n \in {None, Some("Widget")}, d \in {None}, p \in PriceInputs,
       t \in TokenInputs :
        Invoke([Call("CreateProduct") EXCEPT !.name = n, !.description = d,
                                             !.price = p, !.token = t])

DoGetProductById ==
    \E id \in IdInputs("products") :
        Invoke([Call("GetProductById") EXCEPT !.id = id])

DoUpdateProduct ==
    \E id \in IdInputs("products"), n \in {None, Some("Gadget")},
       d \in {None, Some("")}, p \in PriceInputs,
       t \in TokenInputs \ {EmptyToken} :
        Invoke([Call("UpdateProduct") EXCEPT !.id = id, !.name = n,
                    !.description = d, !.price = p, !.token = t])

DoDeleteProduct ==
    \E id \in IdInputs("products"), t \in TokenInputs :
        Invoke([Call("DeleteProduct") EXCEPT !.id = id, !.token = t])

DoGetAllOrders ==
    \E t \in TokenInputs : Invoke([Call("GetAllOrders") EXCEPT !.token = t])

DoCreateOrder ==
    \E pid \in {None, Some(0)} \cup {Some(i) : i \in IdInputs("products")},
       q \in QuantityInputs, t \in TokenInputs \ {EmptyToken} :
        Invoke([Call("CreateOrder") EXCEPT !.product_id = pid,
                                           !.quantity = q, !.token = t])

DoGetOrderById ==
    \E id \in IdInputs("orders"), t \in TokenInputs :
        Invoke([Call("GetOrderById") EXCEPT !.id = id, !.token = t])

DoUpdateOrder ==
    \E id \in IdInputs("orders"), q \in QuantityInputs,
       st \in {None, Some("pending"), Some("completed"), Some("shipped")},
       t \in TokenInputs \ {EmptyToken} :
        Invoke([Call("UpdateOrder") EXCEPT !.id = id, !.quantity = q,
                                           !.status = st, !.token = t])

DoDeleteOrder ==
    \E id \in IdInputs("orders"), t \in TokenInputs :
        Invoke([Call("DeleteOrder") EXCEPT !.id = id, !.token = t])

\* a SOAP body posted to the five-operation service
Post(operation) ==
    [Call("process_request") EXCEPT !.operation = operation]

PostCreateUser ==
    \E e \in EmailInputs \ {Some("")}, p \in PasswordInputs \ {Some("")},
       g \in BOOLEAN, n \in NameInputs, sh \in ShapeInputs :
        /\ (g \/ n = None)
        /\ (sh = "dict" \/ (e = None /\ p = None /\ ~g))
        /\ Invoke([Post("CreateUserRequest") EXCEPT
                     !.email = e, !.password = p, !.name_given = g,
                     !.name = n, !.shape = sh])

PostGetAllUsers == Invoke(Post("GetAllUsersRequest"))

PostLogin ==
    \E e \in {None, Some("a@x.com"), Some("A@x.com"), Some("root@x.com")},
       p \in PasswordInputs, sh \in ShapeInputs :
        /\ (sh = "dict" \/ (e = None /\ p = None))
        /\ Invoke([Post("LoginRequest") EXCEPT
                     !.email = e, !.password = p, !.shape = sh])

PostGetAllProducts == Invoke(Post("GetAllProductsRequest"))

PostCreateProduct ==
    \E n \in {None, Some("Widget")},
       p \in {None, Some("10"), Some("0"), Some("-5"), Some("abc")},
       sh \in ShapeInputs, t \in TokenInputs \ {EmptyToken} :
        /\ (sh = "dict" \/ (n = None /\ p = None))
        /\ Invoke([Post("CreateProductRequest") EXCEPT
                     !.name = n, !.price = p, !.shape = sh, !.token = t])

\* a body whose operation element has a name process_request has no branch
\* for: case variants, prefixes and extensions of routed names, and
\* operations of the full service
PostOther ==
    \E o \in {"createuserrequest", "CREATEUSERREQUEST", "CreateUser",
              "CreateUserRequestX", "LoginRequests", "Login",
              "DeleteUserRequest", "GetAllOrdersRequest"} :
        Invoke([Post(o) EXCEPT !.email = Some("A@x.com"),
                               !.password = Some("exactly8")])

\* a body that is no XML, or that holds no operation element
PostUnparsed ==
    \E b \in MalformedBodies \cup {"empty"} :
        Invoke([Post("") EXCEPT !.body = b])

\* the clock moves on between calls
TickWithin(bound) ==
    /\ pc = "idle"
    /\ steps < bound
    /\ now' = now + TickStep
    /\ steps' = steps + 1
    /\ UNCHANGED <<users, products, orders, seq, tz, lock, issued, cred,
                   pc, req, fault, result, pre, flight>>

\* the garbage collector frees an abandoned connection (the traceback of its
\* exception kept it alive): sqlite3 closes it, its transaction is rolled
\* back and the write lock is released
Collect ==
    /\ pc = "idle"
    /\ lock
    /\ lock' = FALSE
    /\ UNCHANGED <<users, products, orders, seq, now, tz, issued, cred,
                   pc, req, fault, result, pre, steps, flight>>

\* the response goes back to the caller; nothing of the call is kept (the
\* snapshot is reset to an empty store on the same host)
Return ==
    /\ pc = "responded"
    /\ pc' = "idle"
    /\ req' = NoRequest
    /\ fault' = ""
    /\ result' = None
    /\ pre' = [EmptyDB EXCEPT !.tz = tz]
    /\ UNCHANGED <<users, products, orders, seq, now, tz, lock, issued, cred,
                   steps, flight>>

Init ==
    /\ \E s \in Seeds :
         /\ users = s.w.users
         /\ products = s.w.products
         /\ orders = s.w.orders
         /\ seq = s.w.seq
         /\ now = s.w.now
         /\ tz = s.w.tz
         /\ issued = s.w.issued
         /\ lock = s.w.lock
         /\ cred = s.cred
    /\ pc = "idle"
    /\ req = NoRequest
    /\ fault = ""
    /\ result = None
    /\ pre = EmptyDB
    /\ steps = 0
    /\ flight = <<>>

Next ==
    \/ DoGetAllUsers \/ DoCreateUser \/ DoGetUserById \/ DoUpdateUser
    \/ DoDeleteUser \/ DoLogin \/ DoLogout
    \/ DoGetAllProducts \/ DoCreateProduct \/ DoGetProductById
    \/ DoUpdateProduct \/ DoDeleteProduct
    \/ DoGetAllOrders \/ DoCreateOrder \/ DoGetOrderById
    \/ DoUpdateOrder \/ DoDeleteOrder
    \/ PostCreateUser \/ PostGetAllUsers \/ PostLogin
    \/ PostGetAllProducts \/ PostCreateProduct \/ PostOther \/ PostUnparsed
    \/ TickWithin(MaxSteps) \/ Collect \/ Return

Spec == Init /\ [][Next]_vars

----------------------------------------------------------------------------
(* Calls statement by statement.  A handler opens its own connection for   *)
(* each call and commits right after its write; no transaction spans its   *)
(* SELECT, its write and the closing read that builds the response, so      *)
(* other calls may run between any two of them.  A call in flight is        *)
(* "checked" after its checks and SELECT, and "committed" after its write.  *)

\* the i-th call in flight has answered
Landed(i) ==
    [j \in 1..(Len(flight) - 1) |-> IF j < i THEN flight[j] ELSE flight[j + 1]]

\* the calls in flight of an operation that are at a stage
InFlight(op, stage) ==
    {i \in 1..Len(flight) : flight[i].op = op /\ flight[i].stage = stage}

\* whole calls running between the statements of the calls in flight: a
\* Login makes one SELECT and writes nothing
RaceLogin(bound) ==
    \E e \in {Some("a@x.com"), Some("A@x.com")} :
        InvokeWithin([Call("Login") EXCEPT !.email = e,
                         !.password = Some("exactly8")], bound)

\* CreateUser up to its existence SELECT: a call the checks or the SELECT
\* refuse answers with its fault, another one goes on
BeginCreateUser(bound) ==
    \E e \in {Some("a@x.com"), Some("A@x.com")}, p \in {Some("exactly8")} :
        LET r == [Call("CreateUser") EXCEPT !.email = e, !.password = p]
        IN  IF CreateUserCheck(World, e, p) # ""
            THEN InvokeWithin(r, bound)
            ELSE /\ pc = "idle"
                 /\ Len(flight) < MaxFlight
                 /\ steps < bound
                 /\ steps' = steps + 1
                 /\ flight' = Append(flight,
                       [op |-> "CreateUser", stage |-> "checked",
                        req |-> r, id |-> 0])
                 /\ UNCHANGED <<users, products, orders, seq, now, tz, lock,
                                issued, cred, pc, req, fault, result, pre>>

\* the INSERT of a CreateUser in flight, against the table as it is now, and
\* its commit: a UNIQUE failure ends the call with its connection left open
\* (no try/finally closes it), otherwise the closing read is still to come
InsertCreateUser ==
    \E i \in InFlight("CreateUser", "checked") :
        /\ pc = "idle"
        /\ ~lock
        /\ LET f == flight[i] IN
           \E resp \in {InsertUser(World, f.req.email[1],
                                   hash_password(f.req.password[1]),
                                   OrStr(f.req.name,
                                         LocalPart(f.req.email[1])))} :
             IF resp.fault # ""
             THEN /\ pc' = "responded"
                  /\ fault' = resp.fault
                  /\ result' = resp.result
                  /\ req' = f.req
                  /\ pre' = World
                  /\ flight' = Landed(i)
                  /\ lock' = resp.w.lock
                  /\ UNCHANGED <<users, seq, cred>>
             ELSE /\ users' = resp.w.users
                  /\ seq' = resp.w.seq
                  /\ cred' = CredAfter(cred, f.req, resp)
                  /\ flight' = [flight EXCEPT ![i].stage = "committed",
                                              ![i].id = resp.result.id]
                  /\ UNCHANGED <<pc, fault, result, req, pre, lock>>
        /\ UNCHANGED <<products, orders, now, tz, issued, steps>>

\* the closing _get_user_by_id of a CreateUser in flight, on a connection of
\* its own: user_data['id'] of None raises when the row is gone
FinishCreateUser ==
    \E i \in InFlight("CreateUser", "committed") :
        /\ pc = "idle"
        /\ LET f == flight[i] IN
           /\ IF _get_user_by_id(World, f.id) = None
              THEN fault' = InternalError /\ result' = None
              ELSE fault' = "" /\ result' = _get_user_by_id(World, f.id)[1]
           /\ req' = f.req
        /\ pc' = "responded"
        /\ pre' = World
        /\ flight' = Landed(i)
        /\ UNCHANGED <<users, products, orders, seq, now, tz, lock, issued, cred,
                       steps>>

\* the checks UpdateUser and DeleteUser make before they write, on the
\* token and on the row _get_user_by_id SELECTs: the fault, "" for none
UserChecks(w, user_id, token) ==
    LET auth == _authenticate_user(w, token) IN
    IF auth.fault # "" THEN auth.fault
    ELSE IF _get_user_by_id(w, user_id) = None THEN ResourceNotFound
    ELSE IF ~UserAuthorized(auth.payload[1], user_id,
                            _get_user_by_id(w, user_id)[1])
         THEN Unauthorized
    ELSE ""

\* UpdateUser up to its authorization check: a call the checks refuse
\* answers with its fault, another one has read the row and goes on
BeginUpdateUser(bound) ==
    \E id \in DOMAIN users, t \in issued :
        LET r == [Call("UpdateUser") EXCEPT !.id = id, !.name = Some("Ann"),
                                            !.token = t]
        IN  IF UserChecks(World, id, t) # ""
            THEN InvokeWithin(r, bound)
            ELSE /\ pc = "idle"
                 /\ Len(flight) < MaxFlight
                 /\ steps < bound
                 /\ steps' = steps + 1
                 /\ flight' = Append(flight,
                       [op |-> "UpdateUser", stage |-> "checked",
                        req |-> r, id |-> id])
                 /\ UNCHANGED <<users, products, orders, seq, now, tz, lock,
                                issued, cred, pc, req, fault, result, pre>>

\* "UPDATE users SET ... WHERE id = ?" and the commit of an UpdateUser in
\* flight: the row changes when it is still there and nothing is written
\* otherwise
WriteUpdateUser ==
    \E i \in InFlight("UpdateUser", "checked") :
        /\ pc = "idle"
        /\ ~lock
        /\ LET f == flight[i] IN
           /\ users' = IF f.id \in DOMAIN users
                       THEN [users EXCEPT ![f.id] =
                                UpdatedUser(World, f.id, f.req.name,
                                            f.req.password)]
                       ELSE users
           /\ cred' = IF f.id \in DOMAIN users
                      THEN CredAfter(cred, f.req, Resp(World, "", None))
                      ELSE cred
        /\ flight' = [flight EXCEPT ![i].stage = "committed"]
        /\ UNCHANGED <<products, orders, seq, now, tz, lock, issued,
                       pc, req, fault, result, pre, steps>>

\* the closing _get_user_by_id of an UpdateUser in flight: user_data['id']
\* of None raises when the row is gone
FinishUpdateUser ==
    \E i \in InFlight("UpdateUser", "committed") :
        /\ pc = "idle"
        /\ LET f == flight[i] IN
           /\ IF _get_user_by_id(World, f.id) = None
              THEN fault' = InternalError /\ result' = None
              ELSE fault' = "" /\ result' = _get_user_by_id(World, f.id)[1]
           /\ req' = f.req
        /\ pc' = "responded"
        /\ pre' = World
        /\ flight' = Landed(i)
        /\ UNCHANGED <<users, products, orders, seq, now, tz, lock, issued, cred,
                       steps>>

\* DeleteUser up to its authorization check
BeginDeleteUser(bound) ==
    \E id \in DOMAIN users, t \in issued :
        LET r == [Call("DeleteUser") EXCEPT !.id = id, !.token = t]
        IN  IF UserChecks(World, id, t) # ""
            THEN InvokeWithin(r, bound)
            ELSE /\ pc = "idle"
                 /\ Len(flight) < MaxFlight
                 /\ steps < bound
                 /\ steps' = steps + 1
                 /\ flight' = Append(flight,
                       [op |-> "DeleteUser", stage |-> "checked",
                        req |-> r, id |-> id])
                 /\ UNCHANGED <<users, products, orders, seq, now, tz, lock,
                                issued, cred, pc, req, fault, result, pre>>

\* "DELETE FROM users WHERE id = ?", its commit and the response of a
\* DeleteUser in flight: success, whether or not a row was deleted
FinishDeleteUser ==
    \E i \in InFlight("DeleteUser", "checked") :
        /\ pc = "idle"
        /\ ~lock
        /\ LET f == flight[i] IN
           /\ users' = Drop(users, f.id)
           /\ cred' = Drop(cred, f.id)
           /\ req' = f.req
        /\ fault' = ""
        /\ result' = None
        /\ pc' = "responded"
        /\ pre' = World
        /\ flight' = Landed(i)
        /\ UNCHANGED <<products, orders, seq, now, tz, lock, issued, steps>>

\* create_user of the five-operation service up to its existence SELECT: a
\* call that finds the email answers with its fault, another one goes on
BeginPostCreateUser(bound) ==
    \E e \in {Some("a@x.com"), Some("A@x.com")}, p \in {Some("exactly8")} :
        LET r == [Post("CreateUserRequest") EXCEPT !.email = e,
                                                   !.password = p]
        IN  IF UsersByEmail(World, e[1]) # {}
            THEN InvokeWithin(r, bound)
            ELSE /\ pc = "idle"
                 /\ Len(flight) < MaxFlight
                 /\ steps < bound
                 /\ steps' = steps + 1
                 /\ flight' = Append(flight,
                       [op |-> "CreateUserRequest", stage |-> "checked",
                        req |-> r, id |-> 0])
                 /\ UNCHANGED <<users, products, orders, seq, now, tz, lock,
                                issued, cred, pc, req, fault, result, pre>>

\* the INSERT of a CreateUserRequest in flight and its commit: the
\* sqlite3.IntegrityError of the UNIQUE constraint is caught by
\* process_request and answered as a Server fault with its message, and
\* create_user's connection is left open
InsertPostCreateUser ==
    \E i \in InFlight("CreateUserRequest", "checked") :
        /\ pc = "idle"
        /\ ~lock
        /\ LET f == flight[i] IN
           \E resp \in {InsertUser(World, f.req.email[1],
                                   hash_password(f.req.password[1]),
                                   LocalPart(f.req.email[1]))} :
             IF resp.fault # ""
             THEN \E out \in {create_soap_fault(World, "Server",
                                  InternalError,
                                  "UNIQUE constraint failed: users.email")} :
                  /\ pc' = "responded"
                  /\ fault' = out.fault
                  /\ result' = out.result
                  /\ req' = f.req
                  /\ pre' = World
                  /\ flight' = Landed(i)
                  /\ lock' = resp.w.lock
                  /\ UNCHANGED <<users, seq, cred>>
             ELSE /\ users' = resp.w.users
                  /\ seq' = resp.w.seq
                  /\ cred' = CredAfter(cred, f.req, resp)
                  /\ flight' = [flight EXCEPT ![i].stage = "committed",
                                              ![i].id = resp.result.id]
                  /\ UNCHANGED <<pc, fault, result, req, pre, lock>>
        /\ UNCHANGED <<products, orders, now, tz, issued, steps>>

\* the closing _get_user_by_id of a CreateUserRequest in flight: user['id']
\* of None raises when the row is gone, and process_request answers it as a
\* Server fault
FinishPostCreateUser ==
    \E i \in InFlight("CreateUserRequest", "committed") :
        /\ pc = "idle"
        /\ LET f == flight[i] IN
           \E out \in {IF _get_user_by_id(World, f.id) = None
                       THEN create_soap_fault(World, "Server", InternalError,
                                "'NoneType' object is not subscriptable")
                       ELSE Resp(World, "",
                                 _get_user_by_id(World, f.id)[1])} :
             /\ fault' = out.fault
             /\ result' = out.result
             /\ req' = f.req
        /\ pc' = "responded"
        /\ pre' = World
        /\ flight' = Landed(i)
        /\ UNCHANGED <<users, products, orders, seq, now, tz, lock, issued, cred,
                       steps>>

\* the write of a call in flight while an abandoned connection holds the
\* write lock: the INSERT, UPDATE or DELETE (whether or not a row matches)
\* raises sqlite3.OperationalError after the busy timeout, and the call
\* answers Internal Error without having written
WriteLocked ==
    \E i \in 1..Len(flight) :
        /\ pc = "idle"
        /\ lock
        /\ flight[i].stage = IF flight[i].op = "UpdateOrder"
                             THEN "priced" ELSE "checked"
        /\ \E out \in {IF flight[i].op = "CreateUserRequest"
                       THEN create_soap_fault(World, "Server", InternalError,
                                              "database is locked")
                       ELSE Fail(World, InternalError)} :
             /\ fault' = out.fault
             /\ result' = out.result
        /\ req' = flight[i].req
        /\ pc' = "responded"
        /\ pre' = World
        /\ flight' = Landed(i)
        /\ UNCHANGED <<users, products, orders, seq, now, tz, lock, issued,
                       cred, steps>>

NextRace ==
    \/ BeginCreateUser(MaxRaceSteps) \/ InsertCreateUser \/ FinishCreateUser
    \/ BeginPostCreateUser(MaxRaceSteps) \/ InsertPostCreateUser
    \/ FinishPostCreateUser
    \/ BeginUpdateUser(MaxRaceSteps) \/ WriteUpdateUser \/ FinishUpdateUser
    \/ BeginDeleteUser(MaxRaceSteps) \/ FinishDeleteUser
    \/ RaceLogin(MaxRaceSteps)
    \/ WriteLocked \/ Collect \/ Return

SpecRace == Init /\ [][NextRace]_vars

----------------------------------------------------------------------------
(* The product and order handlers statement by statement *)

\* CreateOrder's closing JOIN "WHERE o.id = ?": it finds no row when the
\* product (or the order) is gone, and row[0] of None raises
ClosingOrder(w, order_id) ==
    IF order_id \in Joined(w)
    THEN Resp(w, "", OrderView(w, order_id))
    ELSE Fail(w, InternalError)

\* UpdateProduct's closing SELECT: row[0] of None raises when the product
\* is gone
ClosingProduct(w, product_id) ==
    IF product_id \in DOMAIN w.products
    THEN Resp(w, "", ProductView(w, product_id))
    ELSE Fail(w, InternalError)

\* the checks the product and order handlers make on the row they SELECT
\* before they write: the fault, "" for none
RowChecks(w, table, id, token) ==
    LET auth == _authenticate_user(w, token) IN
    IF auth.fault # "" THEN auth.fault
    ELSE IF id \notin DOMAIN w[table] THEN ResourceNotFound
    ELSE IF ~OwnsRow(w[table][id].user_id, auth.payload[1]) THEN Unauthorized
    ELSE ""

\* a call in flight of the product and order handlers: `price` is the price
\* it SELECTed, `row` the id its INSERT was given, `at` the table its write met
Boarding(r, id) ==
    [op |-> r.op, stage |-> "checked", req |-> r,
     user_id |-> _authenticate_user(World, r.token).payload[1].user_id,
     id |-> id, price |-> None, product_id |-> 0, row |-> 0, at |-> EmptyRow]

\* CreateOrder up to its product SELECT: a call the token, the input or the
\* SELECT refuse answers with its fault, another one has read the price
BeginCreateOrder ==
    \E t \in issued, pid \in DOMAIN products, q \in {Some(1), Some(3)} :
        LET r == [Call("CreateOrder") EXCEPT !.product_id = Some(pid),
                                             !.quantity = q, !.token = t]
        IN  IF _authenticate_user(World, t).fault # ""
               \/ CreateOrderInvalid(Some(pid), q)
            THEN InvokeWithin(r, MaxRaceSteps)
            ELSE /\ pc = "idle"
                 /\ Len(flight) < MaxFlight
                 /\ steps < MaxRaceSteps
                 /\ steps' = steps + 1
                 /\ flight' = Append(flight,
                       [Boarding(r, pid) EXCEPT
                          !.price = Some(products[pid].price),
                          !.product_id = pid, !.at = products])
                 /\ UNCHANGED <<users, products, orders, seq, now, tz, lock,
                                issued, cred, pc, req, fault, result, pre>>

\* the INSERT and commit of a CreateOrder in flight: the row is written with
\* the total that was computed from the SELECTed price; the call remembers
\* the id it was given (lastrowid), and `at` is the products table the INSERT
\* met
InsertCreateOrder ==
    \E i \in InFlight("CreateOrder", "checked") :
        /\ pc = "idle"
        /\ ~lock
        /\ LET f == flight[i] IN
           \E id \in {NextId(World, "orders")} :
             /\ orders' = Put(orders, id,
                    [user_id |-> f.user_id,
                     product_id |-> f.id,
                     quantity |-> f.req.quantity[1],
                     total_price |-> TotalPrice(f.price[1],
                                                f.req.quantity[1]),
                     status |-> "pending",
                     created_at |-> now, updated_at |-> now])
             /\ seq' = [seq EXCEPT !["orders"] = id]
             /\ flight' = [flight EXCEPT ![i].stage = "committed",
                                         ![i].row = id,
                                         ![i].at = products]
        /\ UNCHANGED <<users, products, now, tz, lock, issued, cred,
                       pc, req, fault, result, pre, steps>>

\* the closing JOIN of a CreateOrder in flight, and its response
FinishCreateOrder ==
    \E i \in InFlight("CreateOrder", "committed") :
        /\ pc = "idle"
        /\ LET f == flight[i] IN
           \E resp \in {ClosingOrder(World, f.row)} :
             /\ fault' = resp.fault
             /\ result' = resp.result
             /\ req' = f.req
        /\ pc' = "responded"
        /\ pre' = World
        /\ flight' = Landed(i)
        /\ UNCHANGED <<users, products, orders, seq, now, tz, lock, issued, cred,
                       steps>>

\* UpdateProduct up to its ownership check: a call the checks refuse answers
\* with its fault, another one has read the row's user_id
BeginUpdateProduct ==
    \E t \in issued, pid \in DOMAIN products, p \in {Some(10)} :
        LET r == [Call("UpdateProduct") EXCEPT !.id = pid, !.price = p,
                                               !.token = t]
        IN  IF RowChecks(World, "products", pid, t) # ""
            THEN InvokeWithin(r, MaxRaceSteps)
            ELSE /\ pc = "idle"
                 /\ Len(flight) < MaxFlight
                 /\ steps < MaxRaceSteps
                 /\ steps' = steps + 1
                 /\ flight' = Append(flight,
                       [Boarding(r, pid) EXCEPT
                          !.price = p, !.at = products])
                 /\ UNCHANGED <<users, products, orders, seq, now, tz, lock,
                                issued, cred, pc, req, fault, result, pre>>

\* "UPDATE products SET ... WHERE id = ?" and the commit of an UpdateProduct
\* in flight: the row changes when it is still there and nothing is written
\* otherwise; `at` is the products table the UPDATE met
WriteUpdateProduct ==
    \E i \in InFlight("UpdateProduct", "checked") :
        /\ pc = "idle"
        /\ ~lock
        /\ LET f == flight[i] IN
           products' = IF f.id \in DOMAIN products
                       THEN [products EXCEPT ![f.id] =
                                UpdatedProduct(World, f.id, None, None,
                                               f.price, None)]
                       ELSE products
        /\ flight' = [flight EXCEPT ![i].stage = "committed",
                                    ![i].at = products]
        /\ UNCHANGED <<users, orders, seq, now, tz, lock, issued, cred,
                       pc, req, fault, result, pre, steps>>

\* the closing SELECT of an UpdateProduct in flight, and its response
FinishUpdateProduct ==
    \E i \in InFlight("UpdateProduct", "committed") :
        /\ pc = "idle"
        /\ LET f == flight[i] IN
           \E resp \in {ClosingProduct(World, f.id)} :
             /\ fault' = resp.fault
             /\ result' = resp.result
             /\ req' = f.req
        /\ pc' = "responded"
        /\ pre' = World
        /\ flight' = Landed(i)
        /\ UNCHANGED <<users, products, orders, seq, now, tz, lock, issued, cred,
                       steps>>

\* CreateProduct up to its commit: a call the token or the input check
\* refuses, or whose INSERT meets a locked database, answers with its fault;
\* another one has inserted its row and has the closing SELECT to come
InsertCreateProduct ==
    \E t \in issued :
        LET r == [Call("CreateProduct") EXCEPT !.name = Some("Widget"),
                                               !.price = Some(10), !.token = t]
        IN  \E resp \in {Handle(World, r)} :
            IF resp.fault # ""
            THEN InvokeWithin(r, MaxRaceSteps)
            ELSE /\ pc = "idle"
                 /\ Len(flight) < MaxFlight
                 /\ steps < MaxRaceSteps
                 /\ steps' = steps + 1
                 /\ products' = resp.w.products
                 /\ seq' = resp.w.seq
                 /\ flight' = Append(flight,
                       [Boarding(r, resp.result.id) EXCEPT
                          !.stage = "committed", !.at = resp.w.products])
                 /\ UNCHANGED <<users, orders, now, tz, lock, issued, cred,
                                pc, req, fault, result, pre>>

\* the closing SELECT of a CreateProduct in flight, and its response: row[0]
\* of None raises when the product is gone
FinishCreateProduct ==
    \E i \in InFlight("CreateProduct", "committed") :
        /\ pc = "idle"
        /\ LET f == flight[i] IN
           \E resp \in {ClosingProduct(World, f.id)} :
             /\ fault' = resp.fault
             /\ result' = resp.result
             /\ req' = f.req
        /\ pc' = "responded"
        /\ pre' = World
        /\ flight' = Landed(i)
        /\ UNCHANGED <<users, products, orders, seq, now, tz, lock, issued,
                       cred, steps>>

\* create_product of the five-operation service up to its commit
InsertPostCreateProduct ==
    \E t \in issued :
        LET r == [Post("CreateProductRequest") EXCEPT
                     !.name = Some("Widget"), !.price = Some("10"),
                     !.token = t]
        IN  \E resp \in {Handle(World, r)} :
            IF resp.fault # ""
            THEN InvokeWithin(r, MaxRaceSteps)
            ELSE /\ pc = "idle"
                 /\ Len(flight) < MaxFlight
                 /\ steps < MaxRaceSteps
                 /\ steps' = steps + 1
                 /\ products' = resp.w.products
                 /\ seq' = resp.w.seq
                 /\ flight' = Append(flight,
                       [Boarding(r, resp.result.id) EXCEPT
                          !.op = "CreateProductRequest",
                          !.stage = "committed", !.at = resp.w.products])
                 /\ UNCHANGED <<users, orders, now, tz, lock, issued, cred,
                                pc, req, fault, result, pre>>

\* the closing SELECT of a CreateProductRequest in flight, and its response:
\* row[0] of None raises when the product is gone, and process_request
\* answers it as a Server fault
FinishPostCreateProduct ==
    \E i \in InFlight("CreateProductRequest", "committed") :
        /\ pc = "idle"
        /\ LET f == flight[i] IN
           \E out \in {IF f.id \in DOMAIN products
                       THEN Resp(World, "", ProductView(World, f.id))
                       ELSE create_soap_fault(World, "Server", InternalError,
                                "'NoneType' object is not subscriptable")} :
             /\ fault' = out.fault
             /\ result' = out.result
             /\ req' = f.req
        /\ pc' = "responded"
        /\ pre' = World
        /\ flight' = Landed(i)
        /\ UNCHANGED <<users, products, orders, seq, now, tz, lock, issued,
                       cred, steps>>

\* DeleteProduct up to its ownership check
BeginDeleteProduct ==
    \E t \in issued, pid \in DOMAIN products :
        LET r == [Call("DeleteProduct") EXCEPT !.id = pid, !.token = t]
        IN  IF RowChecks(World, "products", pid, t) # ""
            THEN InvokeWithin(r, MaxRaceSteps)
            ELSE /\ pc = "idle"
                 /\ Len(flight) < MaxFlight
                 /\ steps < MaxRaceSteps
                 /\ steps' = steps + 1
                 /\ flight' = Append(flight,
                       Boarding(r, pid))
                 /\ UNCHANGED <<users, products, orders, seq, now, tz, lock,
                                issued, cred, pc, req, fault, result, pre>>

\* "DELETE FROM products WHERE id = ?", its commit and the response of a
\* DeleteProduct in flight: success, whether or not a row was deleted
FinishDeleteProduct ==
    \E i \in InFlight("DeleteProduct", "checked") :
        /\ pc = "idle"
        /\ ~lock
        /\ products' = Drop(products, flight[i].id)
        /\ req' = flight[i].req
        /\ fault' = ""
        /\ result' = None
        /\ pc' = "responded"
        /\ pre' = World
        /\ flight' = Landed(i)
        /\ UNCHANGED <<users, orders, seq, now, tz, lock, issued, cred, steps>>

\* UpdateOrder up to its ownership check: the call has read the order's
\* user_id, product_id and quantity; with a new quantity the price SELECT
\* is next, without one the UPDATE
BeginUpdateOrder ==
    \E t \in issued, oid \in DOMAIN orders,
       u \in {[quantity |-> Some(3), status |-> None],
              [quantity |-> None, status |-> Some("completed")]} :
        LET r == [Call("UpdateOrder") EXCEPT !.id = oid,
                     !.quantity = u.quantity, !.status = u.status,
                     !.token = t]
        IN  IF RowChecks(World, "orders", oid, t) # ""
            THEN InvokeWithin(r, MaxRaceSteps)
            ELSE /\ pc = "idle"
                 /\ Len(flight) < MaxFlight
                 /\ steps < MaxRaceSteps
                 /\ steps' = steps + 1
                 /\ flight' = Append(flight,
                       [Boarding(r, oid) EXCEPT
                          !.stage = IF QuantityGiven(u.quantity)
                                    THEN "checked" ELSE "priced",
                          !.product_id = orders[oid].product_id,
                          !.at = orders])
                 /\ UNCHANGED <<users, products, orders, seq, now, tz, lock,
                                issued, cred, pc, req, fault, result, pre>>

\* "SELECT price FROM products WHERE id = ?" of an UpdateOrder in flight
\* that was given a quantity: no price when the product is gone
PriceUpdateOrder ==
    \E i \in InFlight("UpdateOrder", "checked") :
        /\ pc = "idle"
        /\ LET f == flight[i] IN
           flight' = [flight EXCEPT
                        ![i].stage = "priced",
                        ![i].price =
                            IF f.product_id \in DOMAIN products
                            THEN Some(products[f.product_id].price)
                            ELSE None]
        /\ UNCHANGED <<users, products, orders, seq, now, tz, lock, issued, cred,
                       pc, req, fault, result, pre, steps>>

\* "UPDATE orders SET ... WHERE id = ?" and its commit, with the total
\* computed from the price that was SELECTed: the row changes when it is
\* still there and nothing is written otherwise
WriteOrder(w, order_id, quantity, status, price) ==
    IF order_id \notin DOMAIN w.orders THEN w
    ELSE LET r0 == w.orders[order_id]
             r1 == IF QuantityGiven(quantity)
                   THEN [r0 EXCEPT !.quantity = quantity[1]]
                   ELSE r0
             r2 == IF QuantityGiven(quantity) /\ price # None
                   THEN [r1 EXCEPT !.total_price =
                                       TotalPrice(price[1], quantity[1])]
                   ELSE r1
             r3 == IF StatusGiven(status)
                   THEN [r2 EXCEPT !.status = status[1]]
                   ELSE r2
         IN  IF QuantityGiven(quantity) \/ StatusGiven(status)
             THEN [w EXCEPT !.orders[order_id] =
                               [r3 EXCEPT !.updated_at = w.now]]
             ELSE w

\* the UPDATE and commit of an UpdateOrder in flight; `at` is the orders
\* table the UPDATE met
WriteUpdateOrder ==
    \E i \in InFlight("UpdateOrder", "priced") :
        /\ pc = "idle"
        /\ ~lock
        /\ LET f == flight[i] IN
           orders' = WriteOrder(World, f.id, f.req.quantity, f.req.status,
                                f.price).orders
        /\ flight' = [flight EXCEPT ![i].stage = "committed",
                                    ![i].at = orders]
        /\ UNCHANGED <<users, products, seq, now, tz, lock, issued, cred,
                       pc, req, fault, result, pre, steps>>

\* the closing JOIN of an UpdateOrder in flight, and its response
FinishUpdateOrder ==
    \E i \in InFlight("UpdateOrder", "committed") :
        /\ pc = "idle"
        /\ LET f == flight[i] IN
           \E resp \in {ClosingOrder(World, f.id)} :
             /\ fault' = resp.fault
             /\ result' = resp.result
             /\ req' = f.req
        /\ pc' = "responded"
        /\ pre' = World
        /\ flight' = Landed(i)
        /\ UNCHANGED <<users, products, orders, seq, now, tz, lock, issued, cred,
                       steps>>

\* DeleteOrder up to its ownership check
BeginDeleteOrder ==
    \E t \in issued, oid \in DOMAIN orders :
        LET r == [Call("DeleteOrder") EXCEPT !.id = oid, !.token = t]
        IN  IF RowChecks(World, "orders", oid, t) # ""
            THEN InvokeWithin(r, MaxRaceSteps)
            ELSE /\ pc = "idle"
                 /\ Len(flight) < MaxFlight
                 /\ steps < MaxRaceSteps
                 /\ steps' = steps + 1
                 /\ flight' = Append(flight, Boarding(r, oid))
                 /\ UNCHANGED <<users, products, orders, seq, now, tz, lock,
                                issued, cred, pc, req, fault, result, pre>>

\* "DELETE FROM orders WHERE id = ?", its commit and the response of a
\* DeleteOrder in flight: success, whether or not a row was deleted
FinishDeleteOrder ==
    \E i \in InFlight("DeleteOrder", "checked") :
        /\ pc = "idle"
        /\ ~lock
        /\ orders' = Drop(orders, flight[i].id)
        /\ req' = flight[i].req
        /\ fault' = ""
        /\ result' = None
        /\ pc' = "responded"
        /\ pre' = World
        /\ flight' = Landed(i)
        /\ UNCHANGED <<users, products, seq, now, tz, lock, issued, cred, steps>>

NextOrderRace ==
    \/ BeginCreateOrder \/ InsertCreateOrder \/ FinishCreateOrder
    \/ InsertCreateProduct \/ FinishCreateProduct
    \/ InsertPostCreateProduct \/ FinishPostCreateProduct
    \/ BeginUpdateProduct \/ WriteUpdateProduct \/ FinishUpdateProduct
    \/ BeginDeleteProduct \/ FinishDeleteProduct
    \/ BeginUpdateOrder \/ PriceUpdateOrder \/ WriteUpdateOrder
    \/ FinishUpdateOrder
    \/ BeginDeleteOrder \/ FinishDeleteOrder
    \/ WriteLocked \/ Collect \/ Return

SpecOrderRace == Init /\ [][NextOrderRace]_vars

----------------------------------------------------------------------------
(* The service on a database file it has just created: every operation of  *)
(* both services, the user handlers statement by statement                 *)

InitFresh ==
    /\ users = EmptyDB.users
    /\ products = EmptyDB.products
    /\ orders = EmptyDB.orders
    /\ seq = EmptyDB.seq
    /\ now = EmptyDB.now
    /\ tz = EmptyDB.tz
    /\ issued = EmptyDB.issued
    /\ lock = EmptyDB.lock
    /\ cred = EmptyRow
    /\ pc = "idle"
    /\ req = NoRequest
    /\ fault = ""
    /\ result = None
    /\ pre = EmptyDB
    /\ steps = 0
    /\ flight = <<>>

\* the operations that write no user, each call running to completion
\* between the statements of the calls in flight: the reads and the session,
\* product and order operations of the full service, and the other
\* operations of the five-operation service
WholeCall(bound) ==
    \E t \in {NoToken} \cup issued :
        \/ \E op \in {"GetAllUsers", "GetUserById", "Logout",
                       "GetAllProducts", "CreateProduct", "GetProductById",
                       "UpdateProduct", "DeleteProduct", "GetAllOrders",
                       "CreateOrder", "GetOrderById", "UpdateOrder",
                       "DeleteOrder"} :
              InvokeWithin([Call(op) EXCEPT
                              !.id = 1, !.name = Some("Widget"),
                              !.price = Some(10), !.product_id = Some(1),
                              !.quantity = Some(1),
                              !.status = Some("completed"), !.token = t],
                           bound)
        \/ \E o \in {"GetAllUsersRequest", "LoginRequest",
                      "GetAllProductsRequest", "CreateProductRequest"} :
              InvokeWithin([Post(o) EXCEPT
                              !.email = Some("a@x.com"),
                              !.password = Some("exactly8"),
                              !.name = Some("Widget"), !.price = Some("10"),
                              !.token = t],
                           bound)

\* the calls of the user handlers, statement by statement, and the other
\* operations as whole calls
NextFresh ==
    \/ BeginCreateUser(MaxFreshSteps) \/ InsertCreateUser \/ FinishCreateUser
    \/ BeginPostCreateUser(MaxFreshSteps) \/ InsertPostCreateUser
    \/ FinishPostCreateUser
    \/ BeginUpdateUser(MaxFreshSteps) \/ WriteUpdateUser \/ FinishUpdateUser
    \/ BeginDeleteUser(MaxFreshSteps) \/ FinishDeleteUser
    \/ RaceLogin(MaxFreshSteps) \/ WholeCall(MaxFreshSteps)
    \/ WriteLocked \/ Collect \/ Return

SpecFresh == InitFresh /\ [][NextFresh]_vars

----------------------------------------------------------------------------
(* The life of a token: logins, uses of the tokens they gave and the clock, *)
(* on hosts in different time zones                                         *)

\* the host's local time is UTC itself or UTC+12
InitClock ==
    /\ \E z \in {0, 12 * 3600} :
         /\ tz = z
         /\ pre = [EmptyDB EXCEPT !.tz = z]
    /\ users = AdminDB.users
    /\ products = AdminDB.products
    /\ orders = AdminDB.orders
    /\ seq = AdminDB.seq
    /\ now = AdminDB.now
    /\ issued = {}
    /\ lock = AdminDB.lock
    /\ cred = AdminCred
    /\ pc = "idle"
    /\ req = NoRequest
    /\ fault = ""
    /\ result = None
    /\ steps = 0
    /\ flight = <<>>

ClockLogin ==
    \E p \in {Some("longenough1"), Some("seven77")} :
        InvokeWithin([Call("Login") EXCEPT !.email = Some("root@x.com"),
                                           !.password = p], MaxClockSteps)

ClockLogout ==
    \E t \in {NoToken} \cup issued :
        InvokeWithin([Call("Logout") EXCEPT !.token = t], MaxClockSteps)

ClockGetAllOrders ==
    \E t \in issued :
        InvokeWithin([Call("GetAllOrders") EXCEPT !.token = t], MaxClockSteps)

NextClock ==
    \/ ClockLogin \/ ClockLogout \/ ClockGetAllOrders
    \/ TickWithin(MaxClockSteps) \/ Return

SpecClock == InitClock /\ [][NextClock]_vars

----------------------------------------------------------------------------
(* Vocabulary of the properties *)

Responded(op) == pc = "responded" /\ req.op = op

\* the claims of the request's token when it verified at the time of the call
Caller == verify_token(req.token, pre.now)

Authenticated == Caller # None

\* the three tables and their id counters are as the call found them
StoreUnchanged ==
    /\ users = pre.users
    /\ products = pre.products
    /\ orders = pre.orders
    /\ seq = pre.seq

\* the caller's row says admin
CallerIsAdmin ==
    /\ Caller[1].user_id \in DOMAIN pre.users
    /\ pre.users[Caller[1].user_id].role = "admin"

\* a password UpdateUser would have to reject
BadPassword(p) == p # None /\ p[1] # "" /\ Len(p[1]) < 8

----------------------------------------------------------------------------
(* C1 *)

\* C1: UpdateUser(u) and DeleteUser(u) by an authenticated caller on an
\* existing user go through when the caller is u or has role admin, and yield
\* Unauthorized, leaving the users table as it was, for every other caller,
\* whatever the role of u.
C1_UserAuthorization ==
    (/\ pc = "responded"
     /\ req.op \in {"UpdateUser", "DeleteUser"}
     /\ Authenticated
     /\ req.id \in DOMAIN pre.users)
    => IF Caller[1].user_id = req.id \/ CallerIsAdmin
       THEN fault # Unauthorized
            /\ (~BadPassword(req.password) => fault = "")
       ELSE fault = Unauthorized /\ users = pre.users

----------------------------------------------------------------------------
(* C2 *)

\* C2: UpdateProduct, DeleteProduct, UpdateOrder and DeleteOrder on an
\* existing product or order by an authenticated caller who is not its owner
\* yield Unauthorized and leave the store unchanged, whatever the caller's or
\* the owner's role.
C2_NoAdminOverride ==
    /\ (/\ pc = "responded"
        /\ req.op \in {"UpdateProduct", "DeleteProduct"}
        /\ Authenticated
        /\ req.id \in DOMAIN pre.products
        /\ pre.products[req.id].user_id # Caller[1].user_id)
       => (fault = Unauthorized /\ StoreUnchanged)
    /\ (/\ pc = "responded"
        /\ req.op \in {"UpdateOrder", "DeleteOrder"}
        /\ Authenticated
        /\ req.id \in DOMAIN pre.orders
        /\ pre.orders[req.id].user_id # Caller[1].user_id)
       => (fault = Unauthorized /\ StoreUnchanged)

\* an administrator was refused the update of another user's order
C2_Witness ==
    /\ Responded("UpdateOrder")
    /\ Authenticated
    /\ CallerIsAdmin
    /\ req.id \in DOMAIN pre.orders
    /\ pre.orders[req.id].user_id # Caller[1].user_id
    /\ req.status = Some("completed")
    /\ fault = Unauthorized

----------------------------------------------------------------------------
(* C3 *)

\* C3: every operation that requires authentication answers a missing or
\* empty token with Authentication Required and a token that does not verify
\* (malformed, signed with another key, expired) with Invalid Token, whatever
\* its other parameters, and leaves the world unchanged.
C3_AuthenticationFirst ==
    (pc = "responded" /\ req.op \in AuthRequiredOps)
    => /\ (req.token.kind \in {"none", "empty"})
            => (fault = AuthenticationRequired /\ StoreUnchanged
                /\ issued = pre.issued)
       /\ (/\ req.token.kind \notin {"none", "empty"}
           /\ ~(/\ req.token.kind = "jwt"
                /\ req.token.key = JWT_SECRET
                /\ req.token.exp > pre.now))
            => (fault = InvalidToken /\ StoreUnchanged /\ issued = pre.issued)

\* an expired token on an update of an order that does not exist
C3_Witness ==
    /\ Responded("UpdateOrder")
    /\ req.token \in pre.issued
    /\ req.token.exp <= pre.now
    /\ req.id \notin DOMAIN pre.orders
    /\ fault = InvalidToken

----------------------------------------------------------------------------
(* C4 *)

\* C4: a call of an authenticated mutating operation that fails authorization
\* (the caller is neither the owner nor, for a user target, an admin) yields
\* Unauthorized whatever is wrong with its input, never Invalid Password or
\* Validation Error, and writes nothing.
C4_AuthorizationBeforeValidation ==
    /\ (/\ Responded("UpdateUser")
        /\ Authenticated
        /\ req.id \in DOMAIN pre.users
        /\ Caller[1].user_id # req.id
        /\ ~CallerIsAdmin
        /\ BadPassword(req.password))
       => (fault = Unauthorized /\ StoreUnchanged)
    /\ (/\ Responded("UpdateProduct")
        /\ Authenticated
        /\ req.id \in DOMAIN pre.products
        /\ pre.products[req.id].user_id # Caller[1].user_id)
       => (fault = Unauthorized /\ StoreUnchanged)
    /\ (/\ Responded("UpdateOrder")
        /\ Authenticated
        /\ req.id \in DOMAIN pre.orders
        /\ pre.orders[req.id].user_id # Caller[1].user_id)
       => (fault = Unauthorized /\ StoreUnchanged)

----------------------------------------------------------------------------
(* C5 *)

\* some live user has exactly this email
EmailTaken(email) ==
    email # None /\ \E u \in DOMAIN pre.users : pre.users[u].email = email[1]

\* C5 as stated: CreateUser with the email of a live user always yields
\* Email Already Registered and writes nothing.
C5_DuplicateAlwaysRejected ==
    (Responded("CreateUser") /\ EmailTaken(req.email))
    => (fault = EmailAlreadyRegistered /\ StoreUnchanged)

\* C5 amended: CreateUser with the email of a live user writes nothing; it
\* yields Email Already Registered when the password is present and at least
\* 8 characters long, Validation Error when the password is missing or empty,
\* and Invalid Password when it is shorter than 8 characters.
C5_DuplicateRejected ==
    (Responded("CreateUser") /\ EmailTaken(req.email))
    => /\ StoreUnchanged
       /\ fault = IF req.password = None \/ req.password[1] = ""
                  THEN ValidationError
                  ELSE IF Len(req.password[1]) < 8
                       THEN InvalidPassword
                       ELSE EmailAlreadyRegistered

\* a second sign-up with a live user's email and a good password was refused
C5_Witness ==
    /\ Responded("CreateUser")
    /\ EmailTaken(req.email)
    /\ req.password = Some("exactly8")
    /\ fault = EmailAlreadyRegistered
    /\ Cardinality(DOMAIN users) = Cardinality(DOMAIN pre.users)

----------------------------------------------------------------------------
(* C6 *)

\* C6: no two live users have the same email, in every state reached by
\* CreateUser, UpdateUser and DeleteUser calls, also when CreateUser calls
\* with the same email interleave between the existence SELECT and the
\* INSERT.
C6_EmailUnique ==
    \A a \in DOMAIN users : \A b \in DOMAIN users :
        users[a].email = users[b].email => a = b

\* the INSERT of a call whose SELECT had found the email free was rejected,
\* another call having registered the email in between, and the connection
\* it abandoned holds the write lock
C6_Witness ==
    /\ Responded("CreateUser")
    /\ fault = InternalError
    /\ EmailTaken(req.email)
    /\ users = pre.users
    /\ ~pre.lock /\ lock

----------------------------------------------------------------------------
(* C7 *)

\* C7: a Login with the email of a live user u and the password u was last
\* given (by the CreateUser that made u, no password change or deletion of u
\* since) succeeds, and its token verifies to claims with user_id = u and
\* that email.
C7_CreateThenLogin ==
    \A u \in DOMAIN cred :
        (/\ Responded("Login")
         /\ u \in DOMAIN pre.users
         /\ req.email = Some(pre.users[u].email)
         /\ req.password = Some(cred[u]))
        => /\ fault = ""
           /\ verify_token(result.token, pre.now) # None
           /\ verify_token(result.token, pre.now)[1].user_id = u
           /\ verify_token(result.token, pre.now)[1].email = req.email[1]

\* a user made by CreateUser with an 8-character password logged in
C7_Witness ==
    /\ Responded("Login")
    /\ req.email = Some("A@x.com")
    /\ req.password = Some("exactly8")
    /\ 3 \in DOMAIN pre.users
    /\ fault = ""
    /\ result.token.user_id = 3
    /\ result.user.id = 3

----------------------------------------------------------------------------
(* C8 *)

\* C8: a successful CreateOrder(P, q) stores quantity q and total_price =
\* (P's price at the call) * q; UpdateOrder by the owner with a quantity
\* q' >= 1 stores quantity q' and total_price = (P's price at the update)
\* * q', whatever the price was when the order was created.
C8_TotalPrice ==
    /\ (Responded("CreateOrder") /\ fault = "")
       => /\ seq["orders"] \in DOMAIN orders
          /\ seq["orders"] \notin DOMAIN pre.orders
          /\ orders[seq["orders"]].quantity = req.quantity[1]
          /\ orders[seq["orders"]].total_price =
                 pre.products[req.product_id[1]].price * req.quantity[1]
    /\ (/\ Responded("UpdateOrder")
        /\ Authenticated
        /\ req.id \in DOMAIN pre.orders
        /\ pre.orders[req.id].user_id = Caller[1].user_id
        /\ pre.orders[req.id].product_id \in DOMAIN pre.products
        /\ req.quantity # None
        /\ req.quantity[1] >= 1)
       => /\ fault = ""
          /\ orders[req.id].quantity = req.quantity[1]
          /\ orders[req.id].total_price =
                 pre.products[pre.orders[req.id].product_id].price
                     * req.quantity[1]
          /\ result.total_price = orders[req.id].total_price

----------------------------------------------------------------------------
(* C9 *)

\* C9: UpdateOrder by the owner with a valid status and no quantity changes
\* the order's status and updated_at and nothing else of the store:
\* quantity, total_price, product_id and user_id stay, also when the
\* product's price has changed since the order was created.
C9_StatusOnly ==
    (/\ Responded("UpdateOrder")
     /\ Authenticated
     /\ req.id \in DOMAIN pre.orders
     /\ pre.orders[req.id].user_id = Caller[1].user_id
     /\ req.quantity = None
     /\ req.status # None
     /\ req.status[1] \in {"pending", "completed", "cancelled"})
    => /\ orders = [pre.orders EXCEPT
                       ![req.id] = [@ EXCEPT !.status = req.status[1],
                                             !.updated_at = pre.now]]
       /\ users = pre.users
       /\ products = pre.products

----------------------------------------------------------------------------
(* C10 *)

\* C10: every order in a GetAllOrders result belongs to the caller, and
\* GetOrderById on an order of another user yields Resource Not Found and
\* returns nothing.
C10_OrdersScopedToCaller ==
    /\ (Responded("GetAllOrders") /\ fault = "")
       => /\ Authenticated
          /\ \A o \in result : o.user_id = Caller[1].user_id
    /\ (/\ Responded("GetOrderById")
        /\ Authenticated
        /\ req.id \in DOMAIN pre.orders
        /\ pre.orders[req.id].user_id # Caller[1].user_id)
       => (fault = ResourceNotFound /\ result = None)

\* another user asked for an order that exists and whose product exists
C10_Witness ==
    /\ Responded("GetOrderById")
    /\ Authenticated
    /\ req.id \in DOMAIN pre.orders
    /\ pre.orders[req.id].product_id \in DOMAIN pre.products
    /\ pre.orders[req.id].user_id # Caller[1].user_id
    /\ fault = ResourceNotFound

----------------------------------------------------------------------------
(* C11 *)

\* a call of the five-operation service with this operation name
Posted(operation) ==
    pc = "responded" /\ req.op = "process_request" /\ req.body = "ok"
    /\ req.operation = operation

UserColumns == {"id", "email", "name", "role", "created_at", "updated_at"}

\* a user as a result shows the six public columns, and none of its texts
\* is the password the request carried
PublicUser(u) ==
    /\ DOMAIN u = UserColumns
    /\ req.password # None
         => (u.email # req.password[1] /\ u.name # req.password[1])

\* the details the five-operation service puts into a fault: fixed texts,
\* the parser's message on the body, the operation name it did not know,
\* and the message of an exception a handler let go
FaultDetails ==
    {"Invalid XML: " \o ParseError(b) : b \in MalformedBodies} \cup
    {"Operation " \o req.operation \o " is not supported"} \cup
    {"Email and password are required",
     "Password must be at least 8 characters long",
     "The email address is already registered",
     "Invalid email or password",
     "Authentication token is required",
     "Authentication token is invalid or expired",
     "Name and price are required", "Invalid price format",
     "No operation found in SOAP request",
     "'str' object has no attribute 'get'",
     "'NoneType' object has no attribute 'get'",
     "'NoneType' object is not subscriptable",
     "UNIQUE constraint failed: users.email",
     "NOT NULL constraint failed: users.name",
     "database is locked"}

\* C11: no result and no fault of any operation of either service holds a
\* password digest or a password: a user is returned as its six public
\* columns, a login as such a user and a token whose claims are user_id,
\* email and exp, a product or an order without any user column, and a
\* fault as a fixed title with a detail that is a fixed text, the parser's
\* message or the unknown operation's name, never the password sent.
C11_NoDigestExposed ==
    pc = "responded" =>
    /\ (fault = "" /\ (req.op \in {"CreateUser", "GetUserById", "UpdateUser"}
                       \/ Posted("CreateUserRequest")))
         => PublicUser(result)
    /\ (fault = "" /\ (req.op = "GetAllUsers" \/ Posted("GetAllUsersRequest")))
         => \A u \in result : PublicUser(u)
    /\ (fault = "" /\ (req.op = "Login" \/ Posted("LoginRequest")))
         => /\ DOMAIN result = {"user", "token"}
            /\ PublicUser(result.user)
            /\ DOMAIN verify_token(result.token, pre.now)[1]
                   = {"user_id", "email", "exp"}
    /\ (fault = "" /\ (req.op \in {"CreateProduct", "GetProductById",
                                   "UpdateProduct"}
                       \/ Posted("CreateProductRequest")))
         => DOMAIN result \cap {"password_hash", "password"} = {}
    /\ (fault = "" /\ (req.op = "GetAllProducts"
                       \/ Posted("GetAllProductsRequest")))
         => \A q \in result :
                DOMAIN q \cap {"password_hash", "password"} = {}
    /\ (fault = "" /\ req.op \in {"CreateOrder", "GetOrderById", "UpdateOrder"})
         => /\ DOMAIN result \cap {"password_hash", "password"} = {}
            /\ DOMAIN result.product \cap {"password_hash", "password"} = {}
    /\ (fault = "" /\ req.op = "GetAllOrders")
         => \A o \in result :
              /\ DOMAIN o \cap {"password_hash", "password"} = {}
              /\ DOMAIN o.product \cap {"password_hash", "password"} = {}
    /\ fault \in {"", AuthenticationRequired, InvalidToken, Unauthorized,
                  ValidationError, InvalidPassword, EmailAlreadyRegistered,
                  InvalidCredentials, ResourceNotFound, InternalError,
                  UnknownOperation}
    /\ (fault # "" /\ req.op = "process_request")
         => /\ result.detail \in FaultDetails
            /\ req.password # None => result.detail # req.password[1]

\* a login returned a user whose row holds the digest of the password sent
C11_Witness ==
    /\ Responded("Login")
    /\ fault = ""
    /\ req.password # None
    /\ result.user.id \in DOMAIN pre.users
    /\ pre.users[result.user.id].password_hash = hash_password(req.password[1])
    /\ DOMAIN result.user = UserColumns

----------------------------------------------------------------------------
(* C12 *)

\* the call inserted exactly one product and changed no other
ProductInserted ==
    /\ seq["products"] \notin DOMAIN pre.products
    /\ DOMAIN products = DOMAIN pre.products \cup {seq["products"]}
    /\ \A q \in DOMAIN pre.products : products[q] = pre.products[q]

\* C12: CreateProduct with a valid token yields Validation Error and inserts
\* nothing when the name or the price is missing or the price is not a
\* positive number (zero, negative, unparsable), and inserts a product when
\* the name is present and the price is positive; in both services.
C12_CreateProductValidation ==
    /\ (Responded("CreateProduct") /\ Authenticated)
       => IF req.name = None \/ req.name[1] = "" \/ req.price = None
             \/ req.price[1] <= 0
          THEN fault = ValidationError /\ products = pre.products
          ELSE fault = "" /\ ProductInserted
    /\ (Posted("CreateProductRequest") /\ Authenticated /\ req.shape = "dict")
       => IF req.name = None \/ req.price # Some("10")
          THEN fault = ValidationError /\ products = pre.products
          ELSE fault = "" /\ ProductInserted

----------------------------------------------------------------------------
(* C13 *)

\* C13: every stored product has a price above zero, in every state reached
\* by CreateProduct and UpdateProduct calls with arbitrary prices.
C13_PricePositive ==
    \A q \in DOMAIN products : products[q].price > 0

----------------------------------------------------------------------------
(* C14 *)

\* every stored order has quantity >= 1 and one of the three statuses, and
\* an order CreateOrder has just made is pending and the caller's
OrdersWellFormed ==
    /\ \A o \in DOMAIN orders :
         /\ orders[o].quantity >= 1
         /\ orders[o].status \in {"pending", "completed", "cancelled"}
    /\ (Responded("CreateOrder") /\ fault = "")
       => /\ seq["orders"] \in DOMAIN orders \ DOMAIN pre.orders
          /\ orders[seq["orders"]].status = "pending"
          /\ orders[seq["orders"]].user_id = Caller[1].user_id

\* C14 as stated: stored orders are well formed; CreateOrder with a missing
\* product_id or a quantity missing or below 1 yields Validation Error, and
\* with a product_id that no product has yields Resource Not Found; nothing
\* is inserted in either case.
C14_OrderValidation ==
    /\ OrdersWellFormed
    /\ (/\ Responded("CreateOrder") /\ Authenticated
        /\ (req.product_id = None \/ req.quantity = None
            \/ req.quantity[1] < 1))
       => (fault = ValidationError /\ StoreUnchanged)
    /\ (/\ Responded("CreateOrder") /\ Authenticated
        /\ req.product_id # None /\ req.quantity # None
        /\ req.quantity[1] >= 1
        /\ req.product_id[1] \notin DOMAIN pre.products)
       => (fault = ResourceNotFound /\ StoreUnchanged)

\* C14 amended: stored orders are well formed; CreateOrder with a product_id
\* that is missing or 0, or a quantity missing or below 1, yields Validation
\* Error, and with a nonzero product_id that no product has (and a quantity
\* >= 1) yields Resource Not Found; nothing is inserted in either case.
C14_OrderValidationZeroId ==
    /\ OrdersWellFormed
    /\ (/\ Responded("CreateOrder") /\ Authenticated
        /\ (req.product_id = None \/ req.product_id[1] = 0
            \/ req.quantity = None \/ req.quantity[1] < 1))
       => (fault = ValidationError /\ StoreUnchanged)
    /\ (/\ Responded("CreateOrder") /\ Authenticated
        /\ req.product_id # None /\ req.product_id[1] # 0
        /\ req.quantity # None /\ req.quantity[1] >= 1
        /\ req.product_id[1] \notin DOMAIN pre.products)
       => (fault = ResourceNotFound /\ StoreUnchanged)

\* an order for product 0 with a good quantity was refused as invalid
C14_Witness ==
    /\ Responded("CreateOrder")
    /\ Authenticated
    /\ req.product_id = Some(0)
    /\ req.quantity = Some(1)
    /\ fault = ValidationError
    /\ orders = pre.orders

----------------------------------------------------------------------------
(* C15 *)

\* an UpdateOrder by the owner of an existing order has responded
OwnerUpdatedOrder ==
    /\ Responded("UpdateOrder")
    /\ Authenticated
    /\ req.id \in DOMAIN pre.orders
    /\ pre.orders[req.id].user_id = Caller[1].user_id

\* C15: UpdateOrder by the owner with a status outside {pending, completed,
\* cancelled} is not rejected: it returns the order as a success result with
\* the status it had, and when no quantity >= 1 comes with it nothing is
\* written (quantity, total_price and updated_at as before).
C15_InvalidStatusIgnored ==
    (/\ OwnerUpdatedOrder
     /\ req.status # None
     /\ req.status[1] \notin {"", "pending", "completed", "cancelled"})
    => /\ fault = ""
       /\ result.id = req.id
       /\ result.status = pre.orders[req.id].status
       /\ orders[req.id].status = pre.orders[req.id].status
       /\ (req.quantity = None \/ req.quantity[1] < 1) => StoreUnchanged

----------------------------------------------------------------------------
(* C16 *)

\* C16: for every order and every s, s' of the three statuses, UpdateOrder
\* (status = s') by the owner on an order in status s succeeds and leaves
\* the order in s'; and the status of an order changes in no call other than
\* a successful UpdateOrder by its owner.
C16_StatusMachine ==
    /\ (/\ OwnerUpdatedOrder
        /\ req.status # None
        /\ req.status[1] \in {"pending", "completed", "cancelled"})
       => /\ fault = ""
          /\ orders[req.id].status = req.status[1]
          /\ result.status = req.status[1]
    /\ pc = "responded"
       => \A o \in DOMAIN orders \cap DOMAIN pre.orders :
            orders[o].status # pre.orders[o].status
            => (OwnerUpdatedOrder /\ req.id = o /\ fault = "")

----------------------------------------------------------------------------
(* C17 *)

\* C17: CreateProduct, in either service, stores the caller's user_id as
\* the product's owner, and no call of any operation changes the owner of a
\* product that exists before and after it.
C17_OwnerImmutable ==
    /\ ((Responded("CreateProduct") \/ Posted("CreateProductRequest"))
        /\ fault = "")
       => /\ seq["products"] \in DOMAIN products \ DOMAIN pre.products
          /\ products[seq["products"]].user_id = Caller[1].user_id
    /\ pc = "responded"
       => \A q \in DOMAIN products \cap DOMAIN pre.products :
            products[q].user_id = pre.products[q].user_id

\* the owner rewrote a product, which stayed theirs
C17_Witness ==
    /\ Responded("UpdateProduct")
    /\ fault = ""
    /\ req.id \in DOMAIN pre.products
    /\ products[req.id] # pre.products[req.id]
    /\ products[req.id].user_id = Caller[1].user_id

----------------------------------------------------------------------------
(* C18 *)

\* C18: a call that ends in a fault leaves the users, products and orders
\* tables as they were before it.
C18_FaultWritesNothing ==
    (pc = "responded" /\ fault # "")
    => (users = pre.users /\ products = pre.products /\ orders = pre.orders)

----------------------------------------------------------------------------
(* C19 *)

\* C19: the dispatcher of the five-operation service routes by exact
\* operation name: a body whose operation name is not exactly one of the
\* five routed names (a case variant, a prefix, an extension, an operation
\* of the full service) is answered with an Unknown Operation fault, no
\* handler runs and the world is unchanged.
C19_ExactRouting ==
    (/\ Responded("process_request")
     /\ req.body = "ok"
     /\ req.operation \notin {"CreateUserRequest", "GetAllUsersRequest",
                              "LoginRequest", "GetAllProductsRequest",
                              "CreateProductRequest"})
    => /\ fault = UnknownOperation
       /\ result.faultcode = "Client"
       /\ StoreUnchanged
       /\ issued = pre.issued

\* a lower-case CreateUserRequest with good credentials of a new user
C19_Witness ==
    /\ Posted("createuserrequest")
    /\ req.email = Some("A@x.com")
    /\ req.password = Some("exactly8")
    /\ ~EmailTaken(req.email)
    /\ fault = UnknownOperation
    /\ users = pre.users

----------------------------------------------------------------------------
(* C20 *)

\* a CreateUserRequest that passes every check of create_user: its INSERT
\* is executed
PostedInsert ==
    /\ Posted("CreateUserRequest")
    /\ req.shape = "dict"
    /\ req.email # None /\ req.password # None
    /\ Len(req.password[1]) >= 8
    /\ ~EmailTaken(req.email)

\* such a request whose <name> element is empty, on a database no connection
\* has locked: the INSERT violates NOT NULL on users.name
NullNameInsert ==
    PostedInsert /\ req.name_given /\ req.name = None /\ ~pre.lock

\* C20: the dispatcher of the five-operation service always returns a result
\* or a fault, never the failure itself; a failure no handler turns into a
\* fault (a body that does not parse, a parameter that is not of the
\* expected shape, a constraint violation in the store, a database that is
\* locked) comes back as an Internal Error fault with code Server whose
\* detail is the failure's message, and has written nothing.
C20_FailuresWrapped ==
    Responded("process_request") =>
    /\ fault # "*raised*"
    /\ req.body = "<<<"
         => (/\ fault = InternalError /\ result.faultcode = "Server"
             /\ result.detail =
                  "Invalid XML: not well-formed (invalid token): line 1, column 1"
             /\ StoreUnchanged)
    /\ req.body = "hello"
         => (/\ fault = InternalError /\ result.faultcode = "Server"
             /\ result.detail = "Invalid XML: syntax error: line 1, column 0"
             /\ StoreUnchanged)
    /\ req.body = ""
         => (/\ fault = InternalError /\ result.faultcode = "Server"
             /\ result.detail = "Invalid XML: no element found: line 1, column 0"
             /\ StoreUnchanged)
    /\ req.body = "<a></b>"
         => (/\ fault = InternalError /\ result.faultcode = "Server"
             /\ result.detail = "Invalid XML: mismatched tag: line 1, column 5"
             /\ StoreUnchanged)
    /\ req.body = "empty"
         => (/\ fault = InternalError /\ result.faultcode = "Server"
             /\ result.detail = "No operation found in SOAP request"
             /\ StoreUnchanged)
    /\ (/\ req.shape = "text"
        /\ \/ Posted("CreateUserRequest") \/ Posted("LoginRequest")
           \/ (Posted("CreateProductRequest") /\ Authenticated))
         => (/\ fault = InternalError /\ result.faultcode = "Server"
             /\ result.detail = "'str' object has no attribute 'get'"
             /\ StoreUnchanged)
    /\ (/\ req.shape = "none"
        /\ \/ Posted("CreateUserRequest") \/ Posted("LoginRequest")
           \/ (Posted("CreateProductRequest") /\ Authenticated))
         => (/\ fault = InternalError /\ result.faultcode = "Server"
             /\ result.detail = "'NoneType' object has no attribute 'get'"
             /\ StoreUnchanged)
    /\ NullNameInsert
         => (/\ fault = InternalError /\ result.faultcode = "Server"
             /\ result.detail = "NOT NULL constraint failed: users.name"
             /\ StoreUnchanged)
    /\ (PostedInsert /\ pre.lock)
         => (/\ fault = InternalError /\ result.faultcode = "Server"
             /\ result.detail = "database is locked"
             /\ StoreUnchanged)

\* the store refused a user without a name and the caller got a fault
C20_Witness ==
    /\ NullNameInsert
    /\ fault = InternalError
    /\ result.faultcode = "Server"
    /\ users = pre.users

----------------------------------------------------------------------------
(* C21 *)

\* the request's token is present and is malformed, signed with another
\* key, or expired when the call was made
BadToken(token, t) ==
    \/ token.kind = "malformed"
    \/ token.kind = "jwt" /\ token.key # JWT_SECRET
    \/ token.kind = "jwt" /\ token.key = JWT_SECRET /\ token.exp <= t

\* C21: a malformed token, a token signed with another key and an expired
\* token all verify to the same "no payload", and every operation that
\* requires authentication answers each of the three with the same Invalid
\* Token fault (same title, same detail, no result), in both services.
C21_InvalidTokensAlike ==
    /\ \A t1 \in TokenInputs : \A t2 \in TokenInputs :
         (BadToken(t1, now) /\ BadToken(t2, now))
         => /\ verify_token(t1, now) = None
            /\ _authenticate_user(World, t1) = _authenticate_user(World, t2)
    /\ (/\ pc = "responded" /\ req.op \in AuthRequiredOps
        /\ BadToken(req.token, pre.now))
       => (fault = InvalidToken /\ result = None)
    /\ (Posted("CreateProductRequest") /\ BadToken(req.token, pre.now))
       => /\ fault = InvalidToken
          /\ result = [faultcode |-> "Client",
                       detail |-> "Authentication token is invalid or expired"]

\* a token signed with another key was refused while an expired token of
\* this service was also at hand
C21_Witness ==
    /\ Responded("GetAllOrders")
    /\ req.token.kind = "jwt"
    /\ req.token.key # JWT_SECRET
    /\ \E k \in pre.issued : k.exp <= pre.now
    /\ fault = InvalidToken

----------------------------------------------------------------------------
(* C22 *)

\* C22: a token Login issues at time t expires at t + 24 hours: it verifies
\* at t and at every time before t + 24h, and is invalid after t + 24h; and
\* an operation that requires authentication answers an issued token with
\* Invalid Token exactly when the token's expiry has been reached.
C22_TokenLifetime ==
    /\ (Responded("Login") /\ fault = "")
       => /\ result.token.exp = pre.now + 24 * 3600
          /\ \A t \in {pre.now, pre.now + TickStep, pre.now + 24 * 3600 - 1} :
               verify_token(result.token, t) # None
          /\ \A t \in {pre.now + 24 * 3600 + 1, pre.now + 3 * TickStep} :
               verify_token(result.token, t) = None
    /\ (/\ pc = "responded" /\ req.op \in {"Logout", "GetAllOrders"}
        /\ req.token \in pre.issued)
       => (fault = InvalidToken <=> pre.now >= req.token.exp)

----------------------------------------------------------------------------
(* C23 *)

\* the answer operation op would give now to a request carrying this token
\* and nothing else
AnswerTo(op, token) == Handle(World, [Call(op) EXCEPT !.token = token])

\* C23: Logout only validates its token.  With a missing or empty token it
\* yields Authentication Required, with a token that does not verify Invalid
\* Token; with a valid token it returns an empty success, leaves the store,
\* the clock and the tokens in circulation as they were, and every operation
\* that requires authentication still accepts the same token afterwards.
C23_LogoutValidatesOnly ==
    Responded("Logout") =>
    /\ StoreUnchanged /\ issued = pre.issued /\ now = pre.now
    /\ IF req.token.kind \in {"none", "empty"}
       THEN fault = AuthenticationRequired
       ELSE IF BadToken(req.token, pre.now)
            THEN fault = InvalidToken
            ELSE /\ fault = ""
                 /\ result = None
                 /\ \A op \in AuthRequiredOps :
                      AnswerTo(op, req.token).fault
                          \notin {AuthenticationRequired, InvalidToken}

\* after a successful Logout the caller's orders are still listed for the
\* token that was logged out
C23_Witness ==
    /\ Responded("Logout")
    /\ fault = ""
    /\ req.token \in pre.issued
    /\ AnswerTo("GetAllOrders", req.token).fault = ""
    /\ AnswerTo("Logout", req.token).fault = ""

----------------------------------------------------------------------------
(* C24 *)

\* the call inserted exactly one user, with role user, and changed no other
UserInserted ==
    /\ seq["users"] \notin DOMAIN pre.users
    /\ DOMAIN users = DOMAIN pre.users \cup {seq["users"]}
    /\ users[seq["users"]].role = "user"
    /\ users[seq["users"]].email = req.email[1]
    /\ \A u \in DOMAIN pre.users : users[u] = pre.users[u]

\* the outcome C24 gives a CreateUser with this email and password
CreateUserOutcome(email, password) ==
    IF email = None \/ email[1] = "" \/ password = None \/ password[1] = ""
    THEN fault = ValidationError /\ users = pre.users
    ELSE IF Len(password[1]) < 8
         THEN fault = InvalidPassword /\ users = pre.users
         ELSE IF EmailTaken(email)
              THEN fault = EmailAlreadyRegistered /\ users = pre.users
              ELSE IF pre.lock
                   THEN fault = InternalError /\ users = pre.users
                   ELSE fault = "" /\ UserInserted

\* C24: CreateUser, in both services, checks presence, then password
\* length, then email uniqueness: a missing or empty email or password
\* yields Validation Error; otherwise a password shorter than 8 yields
\* Invalid Password, also when the email is registered; otherwise a
\* registered email yields Email Already Registered; each of these inserts
\* nothing; otherwise (a password of exactly 8 included) the input is
\* accepted and the INSERT is made: the call succeeds and has inserted
\* exactly one user, with role user, or, on a database that is locked, it
\* answers Internal Error and has inserted none.
C24_CreateUserOrder ==
    /\ Responded("CreateUser") => CreateUserOutcome(req.email, req.password)
    /\ (Posted("CreateUserRequest") /\ req.shape = "dict"
        /\ ~(req.name_given /\ req.name = None))
       => CreateUserOutcome(req.email, req.password)
    /\ (Posted("CreateUserRequest") /\ req.shape = "absent")
       => (fault = ValidationError /\ users = pre.users)

\* a short password with a registered email was refused for its length
C24_Witness ==
    /\ Responded("CreateUser")
    /\ EmailTaken(req.email)
    /\ req.password = Some("seven77")
    /\ fault = InvalidPassword
    /\ users = pre.users

----------------------------------------------------------------------------
(* C25 *)

\* the call's last statement wrote to the products table
WroteProduct == pc = "responded" /\ products # pre.products

\* the call's last statement wrote to the orders table
WroteOrder == pc = "responded" /\ orders # pre.orders

\* C25: with calls interleaved between their SQL statements, a handler
\* writes only while what it checked still holds: an UpdateProduct,
\* DeleteProduct, UpdateOrder or DeleteOrder that changes its table acts on
\* a row that is there, and the caller's, at the moment of the write, and a
\* CreateOrder inserts an order only for a product that is there at the
\* moment of the INSERT, with total_price that product's price at that
\* moment times the quantity.
C25_WritesRecheck ==
    /\ (WroteProduct /\ req.op \in {"UpdateProduct", "DeleteProduct"})
       => /\ req.id \in DOMAIN pre.products
          /\ pre.products[req.id].user_id = Caller[1].user_id
    /\ (WroteOrder /\ req.op = "DeleteOrder")
       => /\ req.id \in DOMAIN pre.orders
          /\ pre.orders[req.id].user_id = Caller[1].user_id
    /\ \A i \in InFlight("UpdateProduct", "committed")
              \cup InFlight("UpdateOrder", "committed") :
         LET f == flight[i] IN
         f.id \in DOMAIN f.at => f.at[f.id].user_id = f.user_id
    /\ \A i \in InFlight("CreateOrder", "committed") :
         LET f == flight[i] IN
         /\ f.id \in DOMAIN f.at
         /\ TotalPrice(f.price[1], f.req.quantity[1])
              = f.at[f.id].price * f.req.quantity[1]

----------------------------------------------------------------------------
(* C26 *)

\* every order of world w names a product of w
OrdersReferToProducts(w) ==
    \A o \in DOMAIN w.orders : w.orders[o].product_id \in DOMAIN w.products

\* C26: every stored order's product_id is the id of an existing product;
\* stated on each call: a CreateOrder, UpdateOrder, DeleteOrder,
\* UpdateProduct or DeleteProduct that finds every order referring to an
\* existing product leaves every order referring to an existing product.
C26_OrdersReferToProducts ==
    (/\ pc = "responded"
     /\ req.op \in {"CreateOrder", "UpdateOrder", "DeleteOrder",
                    "UpdateProduct", "DeleteProduct"}
     /\ OrdersReferToProducts(pre))
    => OrdersReferToProducts(World)

----------------------------------------------------------------------------
(* C27 *)

\* the stored orders of the caller as the call found them
OrdersOfCaller ==
    {o \in DOMAIN pre.orders : pre.orders[o].user_id = Caller[1].user_id}

\* C27: GetAllOrders by an authenticated caller returns every stored order
\* whose user_id is the caller's, and GetOrderById returns each of them,
\* whether or not the order's product was updated or deleted since.
C27_OrdersComplete ==
    /\ (Responded("GetAllOrders") /\ Authenticated)
       => /\ fault = ""
          /\ OrdersOfCaller \subseteq {r.id : r \in result}
    /\ (Responded("GetOrderById") /\ Authenticated
        /\ req.id \in OrdersOfCaller)
       => /\ fault = ""
          /\ result.id = req.id

----------------------------------------------------------------------------
(* C28 *)

\* the ids of the table that the call created
Created(table) == DOMAIN World[table] \ DOMAIN pre[table]

\* a token issued before the call, still unexpired, whose user is deleted
TokenOfDeletedUser(tok) ==
    /\ tok \in pre.issued
    /\ verify_token(tok, pre.now) # None
    /\ tok.user_id \notin DOMAIN pre.users

\* C28: ids are never reused: every id a table ever gave out is at most the
\* table's counter, and a user, product or order created by a call gets an
\* id above the counter the call found; so no token issued before the call
\* (those of deleted users included) passes the ownership check of a user
\* the call created, nor, unless it is the creator's, of a product or an
\* order the call created.
C28_IdsNeverReused ==
    /\ \A table \in {"users", "products", "orders"} :
         /\ DOMAIN World[table] \subseteq 1..seq[table]
         /\ pc = "responded"
            => /\ seq[table] >= pre.seq[table]
               /\ \A id \in Created(table) : id > pre.seq[table]
    /\ pc = "responded"
       => \A tok \in pre.issued :
            /\ \A u \in Created("users") :
                 ~UserAuthorized(tok, u, users[u])
            /\ \A p \in Created("products") :
                 OwnsRow(products[p].user_id, tok)
                     => tok.user_id = Caller[1].user_id
            /\ \A o \in Created("orders") :
                 OwnsRow(orders[o].user_id, tok)
                     => tok.user_id = Caller[1].user_id

\* a user was created while an unexpired token of a deleted user was about,
\* and got an id that no user held before
C28_Witness ==
    /\ Responded("CreateUser")
    /\ fault = ""
    /\ \E tok \in pre.issued : TokenOfDeletedUser(tok)
    /\ Created("users") = {pre.seq["users"] + 1}

----------------------------------------------------------------------------
(* C29 *)

\* the call is an UpdateUser or DeleteUser by an authenticated caller on an
\* existing user other than the caller
ForeignUserCall ==
    /\ pc = "responded"
    /\ req.op \in {"UpdateUser", "DeleteUser"}
    /\ Authenticated
    /\ req.id \in DOMAIN pre.users
    /\ Caller[1].user_id # req.id

\* C29: on a store that started empty every user has role user: the users
\* CreateUser stores (in either service) have it, no call changes the role
\* or the email of a user, and so an UpdateUser or DeleteUser on another
\* user never passes the authorization check.
C29_AllRolesUser ==
    /\ \A u \in DOMAIN users : users[u].role = "user"
    /\ pc = "responded"
       => \A u \in DOMAIN users \cap DOMAIN pre.users :
            /\ users[u].role = pre.users[u].role
            /\ users[u].email = pre.users[u].email
    /\ ForeignUserCall => (fault = Unauthorized /\ users = pre.users)

\* one registered user tried to rename another and was refused
C29_Witness ==
    /\ ForeignUserCall
    /\ req.op = "UpdateUser"
    /\ fault = Unauthorized
    /\ Cardinality(DOMAIN users) = 2

----------------------------------------------------------------------------
(* C30 *)

\* the number a <price> text stands for, <<>> for no price element
PriceOf(text) == IF text = None THEN None ELSE float_of(text[1])

\* the call of the full service with the inputs of the posted request
FullRequest ==
    CASE req.operation = "CreateUserRequest" ->
            [Call("CreateUser") EXCEPT !.email = req.email,
                !.password = req.password, !.name = req.name]
      [] req.operation = "GetAllUsersRequest" -> Call("GetAllUsers")
      [] req.operation = "LoginRequest" ->
            [Call("Login") EXCEPT !.email = req.email,
                                  !.password = req.password]
      [] req.operation = "GetAllProductsRequest" -> Call("GetAllProducts")
      [] req.operation = "CreateProductRequest" ->
            [Call("CreateProduct") EXCEPT !.name = req.name,
                !.price = PriceOf(req.price), !.token = req.token]

\* what the full service answers to it from the store the request found
FullAnswer == Handle(pre, FullRequest)

\* a request to one of the five shared operations whose inputs both services
\* can be given: its parameter has child elements and its price, if any,
\* reads as a number
SharedRequest ==
    /\ pc = "responded"
    /\ req.op = "process_request"
    /\ req.body = "ok"
    /\ req.operation \in {"CreateUserRequest", "GetAllUsersRequest",
                          "LoginRequest", "GetAllProductsRequest",
                          "CreateProductRequest"}
    /\ req.shape = "dict"
    /\ (req.operation = "CreateProductRequest" /\ req.price # None)
       => float_of(req.price[1]) # None

\* C30: on the five operations both implement, the five-operation service
\* and the full service, started from the same store with the same inputs,
\* end in the same outcome (success, or a fault of the same title) and
\* leave the same store.
C30_ServicesAgree ==
    SharedRequest
    => /\ fault = FullAnswer.fault
       /\ users = FullAnswer.w.users
       /\ products = FullAnswer.w.products
       /\ orders = FullAnswer.w.orders
       /\ seq = FullAnswer.w.seq

=============================================================================
